---- MODULE Spec2Model ----
(***************************************************************************)
(* Resume analysis and job-match scoring engine of dr-hassanraza/resume:   *)
(* backend/resume_processor.py (ResumeProcessor),                          *)
(* backend/job_matcher.py (JobMatcher) and the resume and job handlers of  *)
(* backend/advanced_main.py.                                               *)
(*                                                                         *)
(* Texts are TLA+ strings and every string operation of the code (in,      *)
(* count, lower, strip, split, join, the regular expressions) is computed  *)
(* character by character.  Python floats are modelled by exact rationals  *)
(* <<numerator, denominator>> in lowest terms; float rounding is not       *)
(* modelled.  The values computed by nltk and textstat (sentence_count,    *)
(* readability_score) feed no other computation and are left out.          *)
(***************************************************************************)
EXTENDS Integers, Sequences, FiniteSets, TLC

VARIABLES
    op,      \* name of the method or handler that was called, "none" before any call
    args,    \* the arguments of that call
    ret,     \* the value it returned
    uploaded_resumes,  \* advanced_main.uploaded_resumes: resume id -> stored resume
    resume_counter,    \* advanced_main.resume_counter
    requests,          \* the requests received so far: position and response
    resume_processor,  \* the attributes of advanced_main.resume_processor
    frame,             \* the local variables of an extract_sections call in progress
    chat_manager,      \* ChatManager: active_connections and session_data
    redis,             \* the Redis store: key -> saved value
    calls,             \* the ChatManager coroutines that wait at an await
    clock              \* asyncio.get_event_loop().time()

\* the state of the API server
server == <<uploaded_resumes, resume_counter, requests, resume_processor>>

\* the state of the chat service
chat == <<chat_manager, redis, calls, clock>>

vars == <<op, args, ret, uploaded_resumes, resume_counter, requests,
          resume_processor, frame, chat_manager, redis, calls, clock>>

-----------------------------------------------------------------------------
(* Python values *)

\* Python's None (no extracted string is ever equal to it)
None == "None"

\* truth value of an Optional[str]
Truthy(x) == x # None /\ x # ""

Min2(a, b) == IF a <= b THEN a ELSE b

SetMin(S) == CHOOSE x \in S : \A y \in S : x <= y

SetMax(S) == CHOOSE x \in S : \A y \in S : x >= y

\* seq[:n]
Take(seq, n) == SubSeq(seq, 1, Min2(n, Len(seq)))

\* [f(x) for x in seq if p(x)] is written with SelectSeq and a comprehension
SeqToSet(seq) == {seq[i] : i \in 1..Len(seq)}

\* d.keys() of a dict modelled as a function
Keys(d) == DOMAIN d

\* the empty dict
EmptyDict == [k \in {} |-> ""]

\* d[k] = v
DictSet(d, k, v) == [x \in (DOMAIN d) \cup {k} |-> IF x = k THEN v ELSE d[x]]

-----------------------------------------------------------------------------
(* exact arithmetic for the float scores *)

RECURSIVE GCD(_, _)
GCD(a, b) == IF b = 0 THEN a ELSE GCD(b, a % b)

Abs(n) == IF n < 0 THEN -n ELSE n

\* the rational n/d (d > 0) in lowest terms
Rat(n, d) == LET g == GCD(Abs(n), d) IN <<n \div g, d \div g>>

RatInt(n) == <<n, 1>>

RatAdd(a, b) == Rat(a[1] * b[2] + b[1] * a[2], a[2] * b[2])

RatSub(a, b) == Rat(a[1] * b[2] - b[1] * a[2], a[2] * b[2])

RatMul(a, b) == Rat(a[1] * b[1], a[2] * b[2])

RatLt(a, b) == a[1] * b[2] < b[1] * a[2]

RatLe(a, b) == a[1] * b[2] <= b[1] * a[2]

RatMin(a, b) == IF RatLe(a, b) THEN a ELSE b

-----------------------------------------------------------------------------
(* Python str operations *)

Digits == {"0", "1", "2", "3", "4", "5", "6", "7", "8", "9"}

UpperSeq == <<"A", "B", "C", "D", "E", "F", "G", "H", "I", "J", "K", "L", "M",
              "N", "O", "P", "Q", "R", "S", "T", "U", "V", "W", "X", "Y", "Z">>

LowerSeq == <<"a", "b", "c", "d", "e", "f", "g", "h", "i", "j", "k", "l", "m",
              "n", "o", "p", "q", "r", "s", "t", "u", "v", "w", "x", "y", "z">>

UpperLetters == SeqToSet(UpperSeq)

LowerLetters == SeqToSet(LowerSeq)

Letters == UpperLetters \cup LowerLetters

\* \w of the re module (ASCII texts)
WordChars == Letters \cup Digits \cup {"_"}

\* str.isspace
Whitespace == {" ", "\t", "\n", "\r", "\f"}

\* s[i-1], the i-th character
Char(s, i) == SubSeq(s, i, i)

LowerChar(c) ==
    IF c \in UpperLetters
    THEN LowerSeq[CHOOSE i \in 1..Len(UpperSeq) : UpperSeq[i] = c]
    ELSE c

\* s.lower()
RECURSIVE lower(_)
lower(s) ==
    IF Len(s) = 0 THEN ""
    ELSE IF Len(s) = 1 THEN LowerChar(s)
    ELSE LET h == Len(s) \div 2
         IN lower(SubSeq(s, 1, h)) \o lower(SubSeq(s, h + 1, Len(s)))

\* the start positions of the occurrences of sub in s
Occurrences(sub, s) ==
    {i \in 1..(Len(s) - Len(sub) + 1) : SubSeq(s, i, i + Len(sub) - 1) = sub}

\* sub in s
StrIn(sub, s) ==
    \E i \in 1..(Len(s) - Len(sub) + 1) : SubSeq(s, i, i + Len(sub) - 1) = sub

\* s.count(sub): the non-overlapping occurrences, scanning from the left
RECURSIVE CountFrom(_, _, _)
CountFrom(occ, n, from) ==
    LET rest == {i \in occ : i >= from}
    IN IF rest = {} THEN 0 ELSE 1 + CountFrom(occ, n, SetMin(rest) + n)

StrCount(s, sub) == CountFrom(Occurrences(sub, s), Len(sub), 1)

\* s.strip()
strip(s) ==
    LET keep == {i \in 1..Len(s) : Char(s, i) \notin Whitespace}
    IN IF keep = {} THEN "" ELSE SubSeq(s, SetMin(keep), SetMax(keep))

\* len(s.split()): the number of maximal runs of non-whitespace characters
WordCount(s) ==
    Cardinality({i \in 1..Len(s) :
        /\ Char(s, i) \notin Whitespace
        /\ (i = 1 \/ Char(s, i - 1) \in Whitespace)})

\* the elements of a finite set of integers in increasing order
RECURSIVE SortedSeq(_)
SortedSeq(S) ==
    IF S = {} THEN <<>>
    ELSE LET m == SetMin(S) IN <<m>> \o SortedSeq(S \ {m})

\* s.split('\n')
SplitLines(s) ==
    LET nl == SortedSeq({i \in 1..Len(s) : Char(s, i) = "\n"})
        cut == <<0>> \o nl \o <<Len(s) + 1>>
    IN [k \in 1..(Len(nl) + 1) |-> SubSeq(s, cut[k] + 1, cut[k + 1] - 1)]

\* sep.join(parts)
RECURSIVE Join(_, _)
Join(sep, parts) ==
    IF Len(parts) = 0 THEN ""
    ELSE IF Len(parts) = 1 THEN parts[1]
    ELSE parts[1] \o sep \o Join(sep, Tail(parts))

\* any(p in s for p in phrases)
AnyIn(phrases, s) == \E i \in 1..Len(phrases) : StrIn(phrases[i], s)

-----------------------------------------------------------------------------
(* ResumeProcessor.__init__: the dictionaries.  A Python dict is a sequence *)
(* of <<key, value>> pairs in declaration order, which iteration and max()  *)
(* follow.                                                                 *)

industry_keywords == <<
    <<"technology", <<
        <<"programming", <<"python", "java", "javascript", "react", "angular", "nodejs", "sql", "mongodb", "docker", "kubernetes", "aws", "azure", "git", "agile", "scrum", "ci/cd", "machine learning", "ai", "data science", "api", "microservices", "devops">> >>,
        <<"soft_skills", <<"problem-solving", "teamwork", "communication", "leadership", "collaboration", "critical thinking", "innovation", "adaptability">> >>,
        <<"certifications", <<"aws certified", "azure certified", "google cloud", "cissp", "comptia", "certified scrum master", "pmp">> >>,
        <<"action_verbs", <<"developed", "implemented", "designed", "architected", "optimized", "automated", "scaled", "migrated", "deployed", "integrated">> >>
    >> >>,
    <<"marketing", <<
        <<"skills", <<"digital marketing", "seo", "sem", "social media", "content marketing", "email marketing", "analytics", "google ads", "facebook ads", "conversion optimization", "a/b testing", "crm", "marketing automation">> >>,
        <<"tools", <<"google analytics", "hubspot", "mailchimp", "salesforce", "hootsuite", "canva", "photoshop", "wordpress">> >>,
        <<"soft_skills", <<"creativity", "strategic thinking", "communication", "project management", "data analysis", "brand management">> >>,
        <<"action_verbs", <<"launched", "increased", "generated", "managed", "created", "analyzed", "optimized", "drove", "executed", "coordinated">> >>
    >> >>,
    <<"finance", <<
        <<"skills", <<"financial analysis", "budgeting", "forecasting", "risk management", "investment analysis", "portfolio management", "financial modeling", "valuation", "accounting", "auditing", "compliance", "treasury management">> >>,
        <<"tools", <<"excel", "bloomberg", "sap", "quickbooks", "tableau", "power bi", "python", "r", "sql">> >>,
        <<"certifications", <<"cfa", "cpa", "frm", "caia", "series 7", "series 66">> >>,
        <<"action_verbs", <<"analyzed", "evaluated", "managed", "optimized", "forecasted", "assessed", "monitored", "advised", "structured", "executed">> >>
    >> >>,
    <<"healthcare", <<
        <<"skills", <<"patient care", "clinical assessment", "medical records", "hipaa compliance", "electronic health records", "medical terminology", "quality assurance", "infection control", "care coordination">> >>,
        <<"tools", <<"epic", "cerner", "meditech", "allscripts", "emr systems">> >>,
        <<"certifications", <<"bls", "acls", "rn", "lpn", "cna", "medical license", "board certification">> >>,
        <<"action_verbs", <<"administered", "assessed", "documented", "coordinated", "monitored", "educated", "collaborated", "implemented", "evaluated", "managed">> >>
    >> >>
>>

\* the keys of industry_keywords
IndustryNames == {industry_keywords[i][1] : i \in 1..Len(industry_keywords)}

\* industry_keywords[industry]
IndustryData(industry) ==
    industry_keywords[CHOOSE i \in 1..Len(industry_keywords) :
                          industry_keywords[i][1] = industry][2]

\* the keywords of all categories of an industry, in iteration order
RECURSIVE ConcatValues(_)
ConcatValues(pairs) ==
    IF Len(pairs) = 0 THEN <<>> ELSE pairs[1][2] \o ConcatValues(Tail(pairs))

IndustryKeywordList(industry) == ConcatValues(IndustryData(industry))

\* ats_requirements['phone_formats'], one character class per position:
\* "d" is \d, "s" is \s, any other entry is that literal character
phone_formats == <<
    <<"(", "d", "d", "d", ")", "s", "d", "d", "d", "-", "d", "d", "d", "d">>,
    <<"d", "d", "d", "-", "d", "d", "d", "-", "d", "d", "d", "d">>,
    <<"d", "d", "d", ".", "d", "d", "d", ".", "d", "d", "d", "d">>
>>

\* the character classes of ats_requirements['email_format']
EmailLocalChars == Letters \cup Digits \cup {".", "_", "%", "+", "-"}

EmailDomainChars == Letters \cup Digits \cup {".", "-"}

\* [A-Z|a-z]: the class holds the bar too
EmailTldChars == Letters \cup {"|"}

-----------------------------------------------------------------------------
(* regular-expression helpers (re.search: leftmost match, greedy) *)

\* the last index of the maximal run of cls characters that starts at i
\* (i - 1 when the character at i is not in cls)
RunEnd(s, i, cls) ==
    LET bad == {j \in i..Len(s) : Char(s, j) \notin cls}
    IN IF bad = {} THEN Len(s) ELSE SetMin(bad) - 1

\* the first index of the maximal run of cls characters that ends at i
RunStart(s, i, cls) ==
    LET bad == {j \in 1..i : Char(s, j) \notin cls}
    IN IF bad = {} THEN 1 ELSE SetMax(bad) + 1

IsWordAt(s, i) == i \in 1..Len(s) /\ Char(s, i) \in WordChars

\* \b between the characters i-1 and i
Boundary(s, i) == IsWordAt(s, i - 1) # IsWordAt(s, i)

\* one position of a fixed-length pattern
ClassMatch(cls, c) ==
    IF cls = "d" THEN c \in Digits
    ELSE IF cls = "s" THEN c \in Whitespace
    ELSE c = cls

\* the pattern matches the characters i .. i + Len(pattern) - 1
PatternAt(s, i, pattern) ==
    /\ i + Len(pattern) - 1 <= Len(s)
    /\ \A k \in 1..Len(pattern) : ClassMatch(pattern[k], Char(s, i + k - 1))

\* re.search of a fixed-length pattern: the leftmost match or None
PatternSearch(s, pattern) ==
    LET hits == {i \in 1..Len(s) : PatternAt(s, i, pattern)}
    IN IF hits = {} THEN None
       ELSE SubSeq(s, SetMin(hits), SetMin(hits) + Len(pattern) - 1)

\* re.search of literal followed by [cls]+ : the leftmost match or None
LiteralRunSearch(s, literal, cls) ==
    LET hits == {i \in Occurrences(literal, s) :
                    /\ i + Len(literal) <= Len(s)
                    /\ Char(s, i + Len(literal)) \in cls}
    IN IF hits = {} THEN None
       ELSE LET i == SetMin(hits)
            IN SubSeq(s, i, RunEnd(s, i + Len(literal), cls))

\* re.search(r'\b[A-Za-z0-9._%+-]+@[A-Za-z0-9.-]+\.[A-Z|a-z]{2,}\b', s).
\* For an "@" at p the local part is a suffix of the run of local characters
\* that ends at p - 1 and starts at a word boundary; the domain is followed
\* by a "." at d and two or more tld characters up to e, with a word
\* boundary after e.  The leftmost start wins, then the greedy d and e.
EmailStarts(s, p) ==
    {b \in RunStart(s, p - 1, EmailLocalChars)..(p - 1) : Boundary(s, b)}

EmailEnds(s, p) ==
    {de \in (p + 2..RunEnd(s, p + 1, EmailDomainChars)) \X (1..Len(s)) :
        /\ Char(s, de[1]) = "."
        /\ de[2] >= de[1] + 2
        /\ de[2] <= RunEnd(s, de[1] + 1, EmailTldChars)
        /\ Boundary(s, de[2] + 1)}

EmailSearch(s) ==
    LET ats  == {p \in 2..Len(s) :
                    /\ Char(s, p) = "@"
                    /\ EmailStarts(s, p) # {}
                    /\ EmailEnds(s, p) # {}}
    IN IF ats = {} THEN None
       ELSE LET p  == SetMin(ats)
                b  == SetMin(EmailStarts(s, p))
                d  == SetMax({de[1] : de \in EmailEnds(s, p)})
                e  == SetMax({de[2] : de \in {x \in EmailEnds(s, p) : x[1] = d}})
            IN SubSeq(s, b, e)

-----------------------------------------------------------------------------
(* ResumeProcessor *)

section_headers == <<
    <<"experience", <<"experience", "work history", "employment", "professional experience", "work experience">> >>,
    <<"education", <<"education", "academic background", "qualifications">> >>,
    <<"skills", <<"skills", "technical skills", "competencies", "expertise">> >>,
    <<"summary", <<"summary", "profile", "objective", "professional summary", "career objective">> >>,
    <<"projects", <<"projects", "key projects", "notable projects">> >>,
    <<"certifications", <<"certifications", "certificates", "licenses">> >>
>>

\* the inner for loop of extract_sections without the break: the last
\* section key one of whose headers occurs in the line
HeaderKeyLast(line_lower) ==
    LET hits == {k \in 1..Len(section_headers) :
                    AnyIn(section_headers[k][2], line_lower)}
    IN IF hits = {} THEN None ELSE section_headers[SetMax(hits)][1]

\* the inner for loop of extract_sections: the first section key one of
\* whose headers occurs in the line, None when the line is no header
HeaderKey(line_lower) ==
    LET hits == {k \in 1..Len(section_headers) :
                    AnyIn(section_headers[k][2], line_lower)}
    IN IF hits = {} THEN None ELSE section_headers[SetMin(hits)][1]

\* the flush that adds the accumulated lines to the text the section has
FlushAppending(sections, current_section, section_content) ==
    IF Truthy(current_section) /\ Len(section_content) > 0
    THEN DictSet(sections, current_section,
                 IF current_section \in DOMAIN sections
                 THEN sections[current_section] \o "\n" \o Join("\n", section_content)
                 ELSE Join("\n", section_content))
    ELSE sections

\* sections after "if current_section and section_content: sections[...] = ..."
Flush(sections, current_section, section_content) ==
    IF Truthy(current_section) /\ Len(section_content) > 0
    THEN DictSet(sections, current_section, Join("\n", section_content))
    ELSE sections

\* the for loop of extract_sections from line i on, and the final flush
RECURSIVE SectionLoop(_, _, _, _, _)
SectionLoop(text_lines, i, sections, current_section, section_content) ==
    IF i > Len(text_lines)
    THEN Flush(sections, current_section, section_content)
    ELSE LET line == text_lines[i]
             key  == HeaderKey(strip(lower(line)))
         IN IF key # None
            THEN SectionLoop(text_lines, i + 1,
                             Flush(sections, current_section, section_content),
                             key, <<>>)
            ELSE SectionLoop(text_lines, i + 1, sections, current_section,
                             IF Truthy(current_section)
                             THEN Append(section_content, line)
                             ELSE section_content)

extract_sections(text) ==
    SectionLoop(SplitLines(text), 1, EmptyDict, None, <<>>)

\* the for loop over phone_formats: the first pattern that matches decides
PhoneSearch(text) ==
    LET hits == {k \in 1..Len(phone_formats) :
                    PatternSearch(text, phone_formats[k]) # None}
    IN IF hits = {} THEN None
       ELSE PatternSearch(text, phone_formats[SetMin(hits)])

extract_contact_info(text) ==
    [email    |-> EmailSearch(text),
     phone    |-> PhoneSearch(text),
     linkedin |-> LiteralRunSearch(lower(text), "linkedin.com/in/",
                                   WordChars \cup {"-"}),
     github   |-> LiteralRunSearch(lower(text), "github.com/",
                                   WordChars \cup {"-"})]

\* the score detect_industry gives one industry: the occurrences in the
\* text of the keywords that occur in it, summed over the keyword list
RECURSIVE KeywordOccurrences(_, _)
KeywordOccurrences(keyword_list, text) ==
    IF Len(keyword_list) = 0 THEN 0
    ELSE LET keyword == lower(keyword_list[1])
         IN (IF StrIn(keyword, text) THEN StrCount(text, keyword) ELSE 0)
            + KeywordOccurrences(Tail(keyword_list), text)

industry_scores(text) ==
    [i \in 1..Len(industry_keywords) |->
        <<industry_keywords[i][1],
          KeywordOccurrences(ConcatValues(industry_keywords[i][2]), text)>>]

\* max(d, key=d.get) over a dict in declaration order: the first key that
\* has the greatest value
MaxKey(pairs) ==
    pairs[CHOOSE i \in 1..Len(pairs) :
              /\ \A j \in 1..Len(pairs) : pairs[j][2] <= pairs[i][2]
              /\ \A j \in 1..(i - 1) : pairs[j][2] < pairs[i][2]][1]

\* detect_industry that returns the last industry with the greatest score
detect_industry_last_on_ties(text) ==
    LET scores == industry_scores(text)
    IN scores[CHOOSE i \in 1..Len(scores) :
                  /\ \A j \in 1..Len(scores) : scores[j][2] <= scores[i][2]
                  /\ \A j \in (i + 1)..Len(scores) : scores[j][2] < scores[i][2]][1]

detect_industry(text) ==
    LET scores == industry_scores(text)
    IN IF Len(scores) > 0 THEN MaxKey(scores) ELSE "general"

\* the slices of analyze_keywords: found_keywords[:20], missing_keywords[:10]
TopFound == 20

TopMissing == 10

\* analyze_keywords with the score taken from the sliced found list
analyze_keywords_sliced_score(text, industry) ==
    IF industry \notin IndustryNames
    THEN [score |-> RatInt(50), found_keywords |-> <<>>, missing_keywords |-> <<>>]
    ELSE LET keywords == IndustryKeywordList(industry)
             Found(keyword) == StrIn(lower(keyword), text)
             Missing(keyword) == ~Found(keyword)
             found_keywords == Take(SelectSeq(keywords, Found), TopFound)
             missing_keywords == SelectSeq(keywords, Missing)
             total_possible == Len(keywords)
             keyword_score == IF total_possible > 0
                              THEN Rat(Len(found_keywords) * 100, total_possible)
                              ELSE RatInt(0)
         IN [score            |-> RatMin(RatInt(100), keyword_score),
             found_keywords   |-> found_keywords,
             missing_keywords |-> Take(missing_keywords, TopMissing),
             total_found      |-> Len(SelectSeq(keywords, Found)),
             total_possible   |-> total_possible]

\* analyze_keywords without the early return: an unknown industry has no
\* keywords and gets the score of "total_possible > 0 else 0"
analyze_keywords_no_fallback(text, industry) ==
    LET keywords == IF industry \in IndustryNames
                    THEN IndustryKeywordList(industry) ELSE <<>>
        Found(keyword) == StrIn(lower(keyword), text)
        Missing(keyword) == ~Found(keyword)
        found_keywords == SelectSeq(keywords, Found)
        missing_keywords == SelectSeq(keywords, Missing)
        total_possible == Len(keywords)
        keyword_score == IF total_possible > 0
                         THEN Rat(Len(found_keywords) * 100, total_possible)
                         ELSE RatInt(0)
    IN [score            |-> RatMin(RatInt(100), keyword_score),
        found_keywords   |-> Take(found_keywords, TopFound),
        missing_keywords |-> Take(missing_keywords, TopMissing),
        total_found      |-> Len(found_keywords),
        total_possible   |-> total_possible]

analyze_keywords(text, industry) ==
    IF industry \notin IndustryNames
    THEN [score |-> RatInt(50), found_keywords |-> <<>>, missing_keywords |-> <<>>]
    ELSE LET keywords == IndustryKeywordList(industry)
             Found(keyword) == StrIn(lower(keyword), text)
             Missing(keyword) == ~Found(keyword)
             found_keywords == SelectSeq(keywords, Found)
             missing_keywords == SelectSeq(keywords, Missing)
             total_possible == Len(keywords)
             keyword_score == IF total_possible > 0
                              THEN Rat(Len(found_keywords) * 100, total_possible)
                              ELSE RatInt(0)
         IN [score            |-> RatMin(RatInt(100), keyword_score),
             found_keywords   |-> Take(found_keywords, TopFound),
             missing_keywords |-> Take(missing_keywords, TopMissing),
             total_found      |-> Len(found_keywords),
             total_possible   |-> total_possible]

required_sections == <<"experience", "education", "skills">>

\* the word-count limits of the format score
TooShort == 200

TooLong == 800

\* calculate_ats_score with the short penalty at 200 words too
calculate_ats_score_short_le(text, sections, contact_info, keyword_analysis) ==
    LET InSections(x) == x \in Keys(sections)
        section_score == RatMul(Rat(Len(SelectSeq(required_sections, InSections)),
                                    Len(required_sections)), RatInt(40))
        contact_score == (IF Truthy(contact_info.email) THEN 10 ELSE 0)
                         + (IF Truthy(contact_info.phone) THEN 10 ELSE 0)
        keyword_score == RatMul(RatMul(keyword_analysis.score, Rat(1, 100)), RatInt(30))
        format_score  == 10 - (IF WordCount(text) <= TooShort THEN 3 ELSE 0)
                            - (IF WordCount(text) > TooLong THEN 2 ELSE 0)
        score == RatAdd(RatAdd(RatAdd(section_score, RatInt(contact_score)),
                               keyword_score), RatInt(format_score))
    IN RatMin(RatInt(100), score)

\* calculate_ats_score with score -= format_score
calculate_ats_score_minus_format(text, sections, contact_info, keyword_analysis) ==
    LET InSections(x) == x \in Keys(sections)
        section_score == RatMul(Rat(Len(SelectSeq(required_sections, InSections)),
                                    Len(required_sections)), RatInt(40))
        contact_score == (IF Truthy(contact_info.email) THEN 10 ELSE 0)
                         + (IF Truthy(contact_info.phone) THEN 10 ELSE 0)
        keyword_score == RatMul(RatMul(keyword_analysis.score, Rat(1, 100)), RatInt(30))
        format_score  == 10 - (IF WordCount(text) < TooShort THEN 3 ELSE 0)
                            - (IF WordCount(text) > TooLong THEN 2 ELSE 0)
        score == RatSub(RatAdd(RatAdd(section_score, RatInt(contact_score)),
                               keyword_score), RatInt(format_score))
    IN RatMin(RatInt(100), score)

\* calculate_ats_score dividing by the five sections of ats_requirements
calculate_ats_score_all_sections(text, sections, contact_info, keyword_analysis) ==
    LET InSections(x) == x \in Keys(sections)
        section_score == RatMul(Rat(Len(SelectSeq(required_sections, InSections)),
                                    5), RatInt(40))
        contact_score == (IF Truthy(contact_info.email) THEN 10 ELSE 0)
                         + (IF Truthy(contact_info.phone) THEN 10 ELSE 0)
        keyword_score == RatMul(RatMul(keyword_analysis.score, Rat(1, 100)), RatInt(30))
        format_score  == 10 - (IF WordCount(text) < TooShort THEN 3 ELSE 0)
                            - (IF WordCount(text) > TooLong THEN 2 ELSE 0)
        score == RatAdd(RatAdd(RatAdd(section_score, RatInt(contact_score)),
                               keyword_score), RatInt(format_score))
    IN RatMin(RatInt(100), score)

calculate_ats_score(text, sections, contact_info, keyword_analysis) ==
    LET InSections(x) == x \in Keys(sections)
        section_score == RatMul(Rat(Len(SelectSeq(required_sections, InSections)),
                                    Len(required_sections)), RatInt(40))
        contact_score == (IF Truthy(contact_info.email) THEN 10 ELSE 0)
                         + (IF Truthy(contact_info.phone) THEN 10 ELSE 0)
        keyword_score == RatMul(RatMul(keyword_analysis.score, Rat(1, 100)), RatInt(30))
        format_score  == 10 - (IF WordCount(text) < TooShort THEN 3 ELSE 0)
                            - (IF WordCount(text) > TooLong THEN 2 ELSE 0)
        score == RatAdd(RatAdd(RatAdd(section_score, RatInt(contact_score)),
                               keyword_score), RatInt(format_score))
    IN RatMin(RatInt(100), score)

\* [x for each (condition, x) whose condition holds], in the order written
RECURSIVE Collect(_)
Collect(checks) ==
    IF Len(checks) = 0 THEN <<>>
    ELSE (IF checks[1][1] THEN <<checks[1][2]>> ELSE <<>>) \o Collect(Tail(checks))

\* any(char.isdigit() for char in text)
HasDigit(text) == \E i \in 1..Len(text) : Char(text, i) \in Digits

identify_strengths(text, sections, keyword_analysis) ==
    Collect(<<
        <<RatLt(RatInt(70), keyword_analysis.score),
          "Strong industry keyword optimization">>,
        <<Cardinality(Keys(sections)) >= 5,
          "Well-structured with comprehensive sections">>,
        <<"experience" \in Keys(sections) /\ WordCount(sections["experience"]) > 100,
          "Detailed work experience descriptions">>,
        <<AnyIn(<<"achieved", "increased", "improved", "reduced", "generated">>, lower(text)),
          "Includes quantifiable achievements">>,
        <<WordCount(text) > 300,
          "Adequate length and detail">>
    >>)

identify_weaknesses(text, sections, contact_info, keyword_analysis) ==
    Collect(<<
        <<~Truthy(contact_info.email), "Missing email address">>,
        <<~Truthy(contact_info.phone), "Missing phone number">>,
        <<RatLt(keyword_analysis.score, RatInt(40)),
          "Insufficient industry-relevant keywords">>,
        <<"summary" \notin Keys(sections), "Missing professional summary section">>,
        <<WordCount(text) < 250, "Resume content too brief">>,
        <<~HasDigit(text), "No quantified achievements or metrics">>
    >>)

\* re.search(r'\d+%|\$\d+|\d+\+', text) finds a match
HasMetric(text) ==
    \E i \in 1..(Len(text) - 1) :
        \/ Char(text, i) \in Digits /\ Char(text, i + 1) \in {"%", "+"}
        \/ Char(text, i) = "$" /\ Char(text, i + 1) \in Digits

weak_verbs == <<"responsible for", "duties included", "worked on">>

\* self.industry_keywords.get(industry, {}).get('action_verbs', [])
ActionVerbs(industry) ==
    IF industry \notin IndustryNames THEN <<>>
    ELSE LET data == IndustryData(industry)
             hits == {k \in 1..Len(data) : data[k][1] = "action_verbs"}
         IN IF hits = {} THEN <<>> ELSE data[SetMin(hits)][2]

\* generate_recommendations with the contact check ahead of the keyword check
generate_recommendations_contact_first(text, sections, contact_info, keyword_analysis, industry, ats_score) ==
    LET missing_keywords == Take(keyword_analysis.missing_keywords, 5)
        missing_contact  == Collect(<<
            <<~Truthy(contact_info.email), "email">>,
            <<~Truthy(contact_info.phone), "phone number">> >>)
        NotInSections(x) == x \notin Keys(sections)
        missing_sections ==
            SelectSeq(<<"experience", "education", "skills", "summary">>, NotInSections)
    IN Collect(<<
        <<~Truthy(contact_info.email) \/ ~Truthy(contact_info.phone),
          [type |-> "contact", priority |-> "high",
           title |-> "Add Missing Contact Information",
           description |-> "Include your " \o Join(" and ", missing_contact),
           action |-> "add_contact_info"]>>,
        <<RatLt(keyword_analysis.score, RatInt(60)),
          [type |-> "keywords", priority |-> "high",
           title |-> "Add Industry Keywords",
           description |-> "Include these relevant keywords: "
                           \o Join(", ", missing_keywords),
           action |-> "keyword_optimization",
           keywords |-> missing_keywords]>>,
        <<Len(missing_sections) > 0,
          [type |-> "structure", priority |-> "medium",
           title |-> "Add Missing Sections",
           description |-> "Include these sections: " \o Join(", ", missing_sections),
           action |-> "add_sections",
           sections |-> missing_sections]>>,
        <<~HasMetric(text),
          [type |-> "content", priority |-> "medium",
           title |-> "Add Quantifiable Achievements",
           description |-> "Include specific numbers, percentages, and metrics to demonstrate impact",
           action |-> "add_metrics",
           examples |-> <<"Increased sales by 25%", "Managed team of 10+",
                          "Reduced costs by $50K">>]>>,
        <<AnyIn(weak_verbs, lower(text)),
          [type |-> "content", priority |-> "low",
           title |-> "Strengthen Action Verbs",
           description |-> "Replace weak phrases with strong action verbs",
           action |-> "improve_verbs",
           suggestions |-> Take(ActionVerbs(industry), 8)]>>
    >>)

generate_recommendations(text, sections, contact_info, keyword_analysis, industry, ats_score) ==
    LET missing_keywords == Take(keyword_analysis.missing_keywords, 5)
        missing_contact  == Collect(<<
            <<~Truthy(contact_info.email), "email">>,
            <<~Truthy(contact_info.phone), "phone number">> >>)
        NotInSections(x) == x \notin Keys(sections)
        missing_sections ==
            SelectSeq(<<"experience", "education", "skills", "summary">>, NotInSections)
    IN Collect(<<
        <<RatLt(keyword_analysis.score, RatInt(60)),
          [type |-> "keywords", priority |-> "high",
           title |-> "Add Industry Keywords",
           description |-> "Include these relevant keywords: "
                           \o Join(", ", missing_keywords),
           action |-> "keyword_optimization",
           keywords |-> missing_keywords]>>,
        <<~Truthy(contact_info.email) \/ ~Truthy(contact_info.phone),
          [type |-> "contact", priority |-> "high",
           title |-> "Add Missing Contact Information",
           description |-> "Include your " \o Join(" and ", missing_contact),
           action |-> "add_contact_info"]>>,
        <<Len(missing_sections) > 0,
          [type |-> "structure", priority |-> "medium",
           title |-> "Add Missing Sections",
           description |-> "Include these sections: " \o Join(", ", missing_sections),
           action |-> "add_sections",
           sections |-> missing_sections]>>,
        <<~HasMetric(text),
          [type |-> "content", priority |-> "medium",
           title |-> "Add Quantifiable Achievements",
           description |-> "Include specific numbers, percentages, and metrics to demonstrate impact",
           action |-> "add_metrics",
           examples |-> <<"Increased sales by 25%", "Managed team of 10+",
                          "Reduced costs by $50K">>]>>,
        <<AnyIn(weak_verbs, lower(text)),
          [type |-> "content", priority |-> "low",
           title |-> "Strengthen Action Verbs",
           description |-> "Replace weak phrases with strong action verbs",
           action |-> "improve_verbs",
           suggestions |-> Take(ActionVerbs(industry), 8)]>>
    >>)

analyze_resume_content(text) ==
    LET text_lower        == lower(text)
        sections          == extract_sections(text)
        contact_info      == extract_contact_info(text)
        detected_industry == detect_industry(text_lower)
        keyword_analysis  == analyze_keywords(text_lower, detected_industry)
        ats_score         == calculate_ats_score(text, sections, contact_info,
                                                 keyword_analysis)
    IN [text              |-> text,
        word_count        |-> WordCount(text),
        sections          |-> sections,
        contact_info      |-> contact_info,
        detected_industry |-> detected_industry,
        keyword_analysis  |-> keyword_analysis,
        ats_score         |-> ats_score,
        recommendations   |-> generate_recommendations(text, sections, contact_info,
                                  keyword_analysis, detected_industry, ats_score),
        strengths         |-> identify_strengths(text, sections, keyword_analysis),
        weaknesses        |-> identify_weaknesses(text, sections, contact_info,
                                                  keyword_analysis)]

-----------------------------------------------------------------------------
(* the resume texts *)

\* the most fragments a drawn text is put together from
MaxFragments == 2

Fragments == <<
    "John Doe\njohn@x.com\n(555) 123-4567",
    "Experience\nResponsible for 10+ Python APIs on AWS.",
    "Education\nBachelor of Science",
    "Skills\nPython, AWS",
    "Objective\n"
>>

FragmentTexts ==
    UNION {{Join("\n", [i \in 1..n |-> Fragments[f[i]]]) :
                f \in [1..n -> 1..Len(Fragments)]} : n \in 0..MaxFragments}

\* end-to-end scenario A
ScenarioA ==
    "John Doe\njohn@x.com\n(555) 123-4567\nExperience\nDeveloped software using Python, AWS.\nEducation\nBachelor of Science\nSkills\nPython, AWS"

\* the sample text of the module's own example run
sample_text ==
    "\n    John Doe\n    john.doe@email.com\n    (555) 123-4567\n    \n    Professional Summary\n    Software engineer with 5 years of experience in Python and web development.\n    \n    Experience\n    Software Developer at Tech Corp (2020-2023)\n    - Developed web applications using Python and Django\n    - Worked with databases and API integration\n    - Collaborated with team members on various projects\n    \n    Education\n    Bachelor of Science in Computer Science\n    University of Technology (2016-2020)\n    \n    Skills\n    Python, JavaScript, HTML, CSS, Git\n    "

\* s repeated n times
RECURSIVE Repeat(_, _)
Repeat(s, n) ==
    IF n = 0 THEN ""
    ELSE IF n = 1 THEN s
    ELSE Repeat(s, n \div 2) \o Repeat(s, n - (n \div 2))

\* a text that lists the first n keywords of an industry
KeywordText(industry, n) == Join(", ", Take(IndustryKeywordList(industry), n))

SampleTexts ==
    {ScenarioA, sample_text,
     "Experience\n\nEducation\nBSc",
     KeywordText("technology", 22),
     KeywordText("technology", 47) \o "\n555-123-4567 a.b@c.org",
     "Skills\n" \o KeywordText("marketing", 37) \o "\nResponsible for $5 budgets",
     ScenarioA \o "\n" \o Repeat("x ", TooShort),
     ScenarioA \o "\n" \o Repeat("x ", TooLong)}

Texts == FragmentTexts \cup SampleTexts

-----------------------------------------------------------------------------
(* JobMatcher *)

\* d.get(k, default)
Get(d, k, default) == IF k \in DOMAIN d THEN d[k] ELSE default

\* [x.lower() for x in seq]
LowerAll(seq) == [i \in 1..Len(seq) |-> lower(seq[i])]

\* calculate_experience_match that rewards a resume carrying a keyword analysis
calculate_experience_match_by_resume(resume, job_requirements) ==
    IF job_requirements.min_years = 0 \/ "keyword_analysis" \in DOMAIN resume
    THEN 90
    ELSE IF job_requirements.min_years <= 3 THEN 75
    ELSE 60

calculate_experience_match(resume, job_requirements) ==
    IF job_requirements.min_years = 0 THEN 90
    ELSE IF job_requirements.min_years <= 3 THEN 75
    ELSE 60

\* calculate_skills_match where an empty skill list scores 0
calculate_skills_match_empty_zero(resume, job_skills) ==
    LET resume_keywords == Get(Get(resume, "keyword_analysis", EmptyDict),
                               "found_keywords", <<>>)
        resume_keywords_lower == LowerAll(resume_keywords)
        required_skills  == LowerAll(Get(job_skills, "required_skills", <<>>))
        preferred_skills == LowerAll(Get(job_skills, "preferred_skills", <<>>))
        Matched(skill) == \E k \in 1..Len(resume_keywords_lower) :
                              StrIn(skill, resume_keywords_lower[k])
        required_matches  == Len(SelectSeq(required_skills, Matched))
        preferred_matches == Len(SelectSeq(preferred_skills, Matched))
        required_score  == IF Len(required_skills) > 0
                           THEN Rat(required_matches * 80, Len(required_skills))
                           ELSE RatInt(0)
        preferred_score == IF Len(preferred_skills) > 0
                           THEN Rat(preferred_matches * 20, Len(preferred_skills))
                           ELSE RatInt(0)
    IN RatMin(RatInt(100), RatAdd(required_score, preferred_score))

calculate_skills_match(resume, job_skills) ==
    LET resume_keywords == Get(Get(resume, "keyword_analysis", EmptyDict),
                               "found_keywords", <<>>)
        resume_keywords_lower == LowerAll(resume_keywords)
        required_skills  == LowerAll(Get(job_skills, "required_skills", <<>>))
        preferred_skills == LowerAll(Get(job_skills, "preferred_skills", <<>>))
        Matched(skill) == \E k \in 1..Len(resume_keywords_lower) :
                              StrIn(skill, resume_keywords_lower[k])
        required_matches  == Len(SelectSeq(required_skills, Matched))
        preferred_matches == Len(SelectSeq(preferred_skills, Matched))
        required_score  == IF Len(required_skills) > 0
                           THEN Rat(required_matches * 80, Len(required_skills))
                           ELSE RatInt(80)
        preferred_score == IF Len(preferred_skills) > 0
                           THEN Rat(preferred_matches * 20, Len(preferred_skills))
                           ELSE RatInt(20)
    IN RatMin(RatInt(100), RatAdd(required_score, preferred_score))

\* calculate_education_match that scores a required degree as unmet
calculate_education_match_unmet(resume, job_education) ==
    IF ~Get(job_education, "degree_required", FALSE) THEN 100 ELSE 50

calculate_education_match(resume, job_education) ==
    IF ~Get(job_education, "degree_required", FALSE) THEN 100 ELSE 75

\* calculate_industry_match that looks at the job's industry only
calculate_industry_match_job_only(resume, job) ==
    LET resume_industry == Get(resume, "detected_industry", "")
        job_industry    == Get(job, "industry", "")
    IN IF resume_industry = job_industry THEN 100
       ELSE IF job_industry \in {"technology", "general"} THEN 70
       ELSE 50

calculate_industry_match(resume, job) ==
    LET resume_industry == Get(resume, "detected_industry", "")
        job_industry    == Get(job, "industry", "")
    IN IF resume_industry = job_industry THEN 100
       ELSE IF resume_industry \in {"technology", "general"}
               \/ job_industry \in {"technology", "general"} THEN 70
       ELSE 50

\* generate_match_insights that reports a gap at a score of 60 as well
generate_match_insights_gap_le(resume, job, scores) ==
    LET job_skills == job.requirements.skills
        resume_keywords == SeqToSet(LowerAll(
            Get(Get(resume, "keyword_analysis", EmptyDict), "found_keywords", <<>>)))
        Unmatched(skill) == ~\E kw \in resume_keywords : StrIn(lower(skill), kw)
        missing_required ==
            SelectSeq(Take(Get(job_skills, "required_skills", <<>>), 5), Unmatched)
    IN [strengths |-> Collect(<<
            <<RatLe(RatInt(80), scores.skills),
              "Strong skills alignment with job requirements">>,
            <<scores.experience >= 80,
              "Experience level matches job expectations">>,
            <<scores.industry >= 80,
              "Strong industry background for this role">> >>),
        gaps |-> Collect(<<
            <<RatLe(scores.skills, RatInt(60)),
              "Missing several key technical skills">>,
            <<scores.experience <= 60,
              "Experience level below job requirements">>,
            <<scores.education <= 60,
              "Education requirements not fully met">> >>),
        recommendations |-> Collect(<<
            <<Len(missing_required) > 0,
              [type |-> "add_skills", priority |-> "high",
               title |-> "Add Missing Required Skills",
               description |-> "Consider adding these skills: "
                               \o Join(", ", missing_required),
               skills |-> missing_required]>>,
            <<scores.experience < 70,
              [type |-> "highlight_experience", priority |-> "medium",
               title |-> "Emphasize Relevant Experience",
               description |-> "Highlight projects and achievements that demonstrate the required experience level"]>> >>)]

generate_match_insights(resume, job, scores) ==
    LET job_skills == job.requirements.skills
        resume_keywords == SeqToSet(LowerAll(
            Get(Get(resume, "keyword_analysis", EmptyDict), "found_keywords", <<>>)))
        Unmatched(skill) == ~\E kw \in resume_keywords : StrIn(lower(skill), kw)
        missing_required ==
            SelectSeq(Take(Get(job_skills, "required_skills", <<>>), 5), Unmatched)
    IN [strengths |-> Collect(<<
            <<RatLe(RatInt(80), scores.skills),
              "Strong skills alignment with job requirements">>,
            <<scores.experience >= 80,
              "Experience level matches job expectations">>,
            <<scores.industry >= 80,
              "Strong industry background for this role">> >>),
        gaps |-> Collect(<<
            <<RatLt(scores.skills, RatInt(60)),
              "Missing several key technical skills">>,
            <<scores.experience < 60,
              "Experience level below job requirements">>,
            <<scores.education < 60,
              "Education requirements not fully met">> >>),
        recommendations |-> Collect(<<
            <<Len(missing_required) > 0,
              [type |-> "add_skills", priority |-> "high",
               title |-> "Add Missing Required Skills",
               description |-> "Consider adding these skills: "
                               \o Join(", ", missing_required),
               skills |-> missing_required]>>,
            <<scores.experience < 70,
              [type |-> "highlight_experience", priority |-> "medium",
               title |-> "Emphasize Relevant Experience",
               description |-> "Highlight projects and achievements that demonstrate the required experience level"]>> >>)]

\* calculate_match_score with the weights of experience and skills exchanged
calculate_match_score_swapped_weights(resume_analysis, job_analysis) ==
    LET experience_score == calculate_experience_match(
            resume_analysis, job_analysis.requirements.experience)
        skills_score == calculate_skills_match(
            resume_analysis, job_analysis.requirements.skills)
        education_score == calculate_education_match(
            resume_analysis, job_analysis.requirements.education)
        industry_score == calculate_industry_match(resume_analysis, job_analysis)
        category_scores == [experience |-> experience_score,
                            skills     |-> skills_score,
                            education  |-> education_score,
                            industry   |-> industry_score]
        overall_score ==
            RatAdd(RatAdd(RatAdd(RatMul(RatInt(experience_score), Rat(40, 100)),
                                 RatMul(skills_score, Rat(30, 100))),
                          RatMul(RatInt(education_score), Rat(15, 100))),
                   RatMul(RatInt(industry_score), Rat(15, 100)))
        insights == generate_match_insights(resume_analysis, job_analysis,
                                            category_scores)
    IN [overall_score   |-> overall_score,
        category_scores |-> category_scores,
        strengths       |-> insights.strengths,
        gaps            |-> insights.gaps,
        recommendations |-> insights.recommendations]

calculate_match_score(resume_analysis, job_analysis) ==
    LET experience_score == calculate_experience_match(
            resume_analysis, job_analysis.requirements.experience)
        skills_score == calculate_skills_match(
            resume_analysis, job_analysis.requirements.skills)
        education_score == calculate_education_match(
            resume_analysis, job_analysis.requirements.education)
        industry_score == calculate_industry_match(resume_analysis, job_analysis)
        category_scores == [experience |-> experience_score,
                            skills     |-> skills_score,
                            education  |-> education_score,
                            industry   |-> industry_score]
        overall_score ==
            RatAdd(RatAdd(RatAdd(RatMul(RatInt(experience_score), Rat(30, 100)),
                                 RatMul(skills_score, Rat(40, 100))),
                          RatMul(RatInt(education_score), Rat(15, 100))),
                   RatMul(RatInt(industry_score), Rat(15, 100)))
        insights == generate_match_insights(resume_analysis, job_analysis,
                                            category_scores)
    IN [overall_score   |-> overall_score,
        category_scores |-> category_scores,
        strengths       |-> insights.strengths,
        gaps            |-> insights.gaps,
        recommendations |-> insights.recommendations]

-----------------------------------------------------------------------------
(* the inputs of the direct calls *)

\* most entries of a job's required or preferred skill list
MaxSkills == 2

\* skills as extract_skill_requirements yields them (lowercased job text)
JobSkills == <<"aws", "rust">>

SkillLists ==
    UNION {{[i \in 1..n |-> JobSkills[f[i]]] : f \in [1..n -> 1..Len(JobSkills)]} :
               n \in 0..MaxSkills}

Jobs ==
    {[requirements |->
         [experience |-> [min_years |-> y],
          skills     |-> [required_skills |-> r, preferred_skills |-> p],
          education  |-> [degree_required |-> d]],
      industry |-> i] :
        y \in {0, 3, 4}, r \in SkillLists, p \in SkillLists,
        d \in BOOLEAN, i \in {"technology", "finance", "sales"}}

\* resume analyses handed to the match scorer, and a resume dict that has
\* neither a keyword analysis nor a detected industry
Resumes ==
    {analyze_resume_content(ScenarioA),
     analyze_resume_content(KeywordText("finance", 37)),
     [industry |-> "technology"]}

\* texts of the direct analyze_keywords calls (the caller lowercases them)
KeywordTexts ==
    {"", lower(ScenarioA), KeywordText("technology", 20),
     KeywordText("technology", 21), KeywordText("healthcare", 31)}

\* texts of the direct calculate_ats_score calls: 0 words and the word
\* counts at both limits of the format score
LengthTexts ==
    {Repeat("x ", n) :
        n \in {0, TooShort - 1, TooShort, TooLong, TooLong + 1}}

SectionDicts ==
    {[k \in K |-> "text of " \o k] :
        K \in SUBSET {"experience", "education", "skills", "summary"}}

ContactInfos ==
    {[email |-> e, phone |-> ph, linkedin |-> None, github |-> None] :
        e \in {None, "john@x.com"}, ph \in {None, "(555) 123-4567"}}

KeywordAnalyses ==
    {analyze_keywords(t, i) :
        t \in {"", KeywordText("technology", 47)}, i \in {"technology", "general"}}

-----------------------------------------------------------------------------
(* one call of one method per behaviour: the engine keeps no state between *)
(* calls                                                                   *)

\* the resume that the server holds from the start
sample_resume ==
    [id |-> 1, title |-> "Sample Resume", ats_score |-> Rat(151, 2),
     industry |-> "technology", experience_level |-> "mid",
     file_name |-> "sample_resume.pdf", file_size |-> "245 KB",
     analysis |->
         [strengths |-> <<"Strong technical skills", "Clear formatting",
                          "Relevant experience">>,
          weaknesses |-> <<"Missing keywords", "No quantified achievements",
                           "Limited soft skills">>,
          suggestions |-> <<"Add industry keywords", "Include metrics and numbers",
                            "Highlight leadership experience">>,
          keyword_score |-> RatInt(65), format_score |-> RatInt(85),
          content_score |-> RatInt(70)],
     optimization_history |-> <<>>]

Init ==
    /\ op = "none"
    /\ args = <<>>
    /\ ret = <<>>
    /\ uploaded_resumes = (1 :> sample_resume)
    /\ resume_counter = 1
    /\ requests = <<>>
    /\ resume_processor = [industry_keywords |-> industry_keywords]
    /\ frame = [pc |-> "idle"]
    /\ chat_manager = [active_connections |-> <<>>, session_data |-> <<>>]
    /\ redis = <<>>
    /\ calls = [started |-> 0, running |-> <<>>]
    /\ clock = 0

AnalyzeResumeContent ==
    /\ op = "none"
    /\ UNCHANGED <<server, frame, chat>>
    /\ \E t \in Texts :
        /\ op' = "analyze_resume_content"
        /\ args' = [text |-> t]
        /\ ret' = analyze_resume_content(t)

AnalyzeKeywords ==
    /\ op = "none"
    /\ UNCHANGED <<server, frame, chat>>
    /\ \E t \in KeywordTexts, i \in IndustryNames \cup {"general", "sales"} :
        /\ op' = "analyze_keywords"
        /\ args' = [text |-> t, industry |-> i]
        /\ ret' = analyze_keywords(t, i)

CalculateAtsScore ==
    /\ op = "none"
    /\ UNCHANGED <<server, frame, chat>>
    /\ \E t \in LengthTexts, s \in SectionDicts, c \in ContactInfos,
          k \in KeywordAnalyses :
        /\ op' = "calculate_ats_score"
        /\ args' = [text |-> t, sections |-> s, contact_info |-> c,
                    keyword_analysis |-> k]
        /\ ret' = calculate_ats_score(t, s, c, k)

CalculateMatchScore ==
    /\ op = "none"
    /\ UNCHANGED <<server, frame, chat>>
    /\ \E r \in Resumes, j \in Jobs :
        /\ op' = "calculate_match_score"
        /\ args' = [resume_analysis |-> r, job_analysis |-> j]
        /\ ret' = calculate_match_score(r, j)

Next ==
    \/ AnalyzeResumeContent
    \/ AnalyzeKeywords
    \/ CalculateAtsScore
    \/ CalculateMatchScore

Spec == Init /\ [][Next]_vars

\* the calls of the match scorer alone
MatchSpec == Init /\ [][CalculateMatchScore]_vars

-----------------------------------------------------------------------------
(* the claims *)

IsAnalysis == op = "analyze_resume_content"

IsKeywordCall == op = "analyze_keywords"

IsAtsCall == op = "calculate_ats_score"

IsMatch == op = "calculate_match_score"

\* the ATS score as the claim states it
AtsClaim(text, sections, contact_info, keyword_analysis) ==
    LET n == Cardinality({"experience", "education", "skills"} \cap Keys(sections))
        sectionScore == Rat(40 * n, 3)
        contactScore == (IF contact_info.email # None THEN 10 ELSE 0)
                        + (IF contact_info.phone # None THEN 10 ELSE 0)
        words == WordCount(text)
        formatScore == 10 - (IF words < 200 THEN 3 ELSE 0)
                          - (IF words > 800 THEN 2 ELSE 0)
        sum == RatAdd(RatAdd(sectionScore, RatInt(contactScore + formatScore)),
                      RatMul(Rat(30, 100), keyword_analysis.score))
    IN IF RatLt(RatInt(100), sum) THEN RatInt(100) ELSE sum

\* C1: calculate_ats_score returns min(100, sectionScore + contactScore +
\* 0.30 * keywordScore + formatScore) with sectionScore = 40 * (required
\* sections present) / 3, contactScore = 10 per found email and phone, and
\* formatScore = 10, minus 3 below 200 words, minus 2 above 800 words.
C1_AtsScoreFormula ==
    /\ IsAtsCall =>
        ret = AtsClaim(args.text, args.sections, args.contact_info,
                       args.keyword_analysis)
    /\ IsAnalysis =>
        ret.ats_score = AtsClaim(ret.text, ret.sections, ret.contact_info,
                                 ret.keyword_analysis)

\* two of the three sections, an email and no phone, no keyword, more than
\* 800 words: 80/3 + 10 + 0 + 8
C1_Witness ==
    /\ IsAtsCall
    /\ WordCount(args.text) > 800
    /\ Keys(args.sections) = {"experience", "skills"}
    /\ args.contact_info.email # None
    /\ args.contact_info.phone = None
    /\ args.keyword_analysis.score = RatInt(0)
    /\ ret = Rat(134, 3)

\* C2: the ATS score of every analysed text, the empty text included, lies
\* in [0, 100].
C2_AtsScoreInRange ==
    IsAnalysis =>
        /\ RatLe(RatInt(0), ret.ats_score)
        /\ RatLe(ret.ats_score, RatInt(100))

\* the empty text is analysed and scores the format points only
C2_Witness ==
    /\ IsAnalysis
    /\ args.text = ""
    /\ ret.ats_score = RatInt(7)

\* no keyword of any industry occurs in the text
NoKeywordOccurs(text) ==
    \A i \in 1..Len(industry_keywords) :
        \A k \in 1..Len(ConcatValues(industry_keywords[i][2])) :
            ~StrIn(ConcatValues(industry_keywords[i][2])[k], text)

\* C3: when no keyword of any industry dictionary occurs in the text,
\* detect_industry returns "general".
C3_GeneralWhenNoKeyword ==
    (IsAnalysis /\ NoKeywordOccurs(lower(ret.text))) =>
        ret.detected_industry = "general"

\* the keywords of an industry that occur in a lowercased text
AllFound(text, industry) ==
    LET Occurs(keyword) == StrIn(keyword, text)
    IN SelectSeq(IndustryKeywordList(industry), Occurs)

\* C4 as stated: the keyword score is 100 * |foundKeywords| / totalPossible
\* over the found-keyword list of the returned analysis, for every text.
C4_ScoreFromReturnedList ==
    /\ (IsKeywordCall /\ args.industry \in IndustryNames) =>
        ret.score = Rat(100 * Len(ret.found_keywords),
                        Len(IndustryKeywordList(args.industry)))
    /\ IsAnalysis =>
        ret.keyword_analysis.score =
            Rat(100 * Len(ret.keyword_analysis.found_keywords),
                Len(IndustryKeywordList(ret.detected_industry)))

\* the keyword analysis of a lowercased text for a dictionary industry
KeywordResultOk(text, industry, ka) ==
    LET found == AllFound(text, industry)
        total == Len(IndustryKeywordList(industry))
    IN /\ ka.score = Rat(100 * Len(found), total)
       /\ ka.total_found = Len(found)
       /\ ka.total_possible = total
       /\ ka.found_keywords = SubSeq(found, 1, Min2(20, Len(found)))
       /\ (Len(found) <= 20 =>
              ka.score = Rat(100 * Len(ka.found_keywords), total))

\* C4 amended: the keyword score is 100 * totalFound / totalPossible, where
\* totalFound counts every keyword of the industry that occurs in the text;
\* the returned foundKeywords list holds the first 20 of them, so the score
\* is 100 * |foundKeywords| / totalPossible when at most 20 are found.
C4_ScoreFromAllFound ==
    /\ (IsKeywordCall /\ args.industry \in IndustryNames) =>
        KeywordResultOk(args.text, args.industry, ret)
    /\ IsAnalysis =>
        KeywordResultOk(lower(ret.text), ret.detected_industry,
                        ret.keyword_analysis)

\* more than 20 keywords are found and 20 are returned
C4_Witness ==
    /\ IsKeywordCall
    /\ args.industry = "technology"
    /\ ret.total_found > 20
    /\ Len(ret.found_keywords) = 20
    /\ ret.score = Rat(100 * ret.total_found, 47)

\* C5: for "general", and any industry that is not in the dictionary,
\* analyze_keywords returns score 50 with empty found and missing lists.
C5_GeneralFallback ==
    (IsKeywordCall /\ args.industry \notin
        {"technology", "marketing", "finance", "healthcare"}) =>
        /\ ret.score = RatInt(50)
        /\ ret.found_keywords = <<>>
        /\ ret.missing_keywords = <<>>

\* analyze_keywords was called for "general" on a text with keywords in it
C5_Witness ==
    /\ IsKeywordCall
    /\ args.industry = "general"
    /\ StrIn("python", args.text)
    /\ ret.score = RatInt(50)

\* a header line of the section occurs in the text
HeaderOccurs(text, key) ==
    \E i \in 1..Len(SplitLines(text)) :
        HeaderKey(strip(lower(SplitLines(text)[i]))) = key

\* C6: every key of the sections mapping belongs to a section whose header
\* line occurred in the text, and the text stored under it is non-empty.
C6_SectionsNonEmpty ==
    IsAnalysis =>
        \A key \in Keys(ret.sections) :
            /\ HeaderOccurs(ret.text, key)
            /\ ret.sections[key] # ""

\* C7: with the experience, education and skills sections detected and an
\* email and a phone found, the ATS score is greater than 60.
C7_CompleteResumeAbove60 ==
    /\ (IsAtsCall
        /\ {"experience", "education", "skills"} \subseteq Keys(args.sections)
        /\ args.contact_info.email # None
        /\ args.contact_info.phone # None) => RatLt(RatInt(60), ret)
    /\ (IsAnalysis
        /\ {"experience", "education", "skills"} \subseteq Keys(ret.sections)
        /\ ret.contact_info.email # None
        /\ ret.contact_info.phone # None) => RatLt(RatInt(60), ret.ats_score)

\* scenario A: three sections, email "john@x.com", a phone, technology
C7_Witness ==
    /\ IsAnalysis
    /\ args.text = ScenarioA
    /\ {"experience", "education", "skills"} \subseteq Keys(ret.sections)
    /\ ret.contact_info.email = "john@x.com"
    /\ ret.contact_info.phone # None
    /\ ret.detected_industry = "technology"
    /\ RatLt(RatInt(60), ret.ats_score)

\* the place of a recommendation in the order keywords, contact, structure,
\* metrics, verbs
CheckOrder == <<"keyword_optimization", "add_contact_info", "add_sections",
                "add_metrics", "improve_verbs">>

Rank(rec) == CHOOSE k \in 1..Len(CheckOrder) : CheckOrder[k] = rec.action

\* C8: the recommendations come in the order keywords, contact, structure,
\* metrics, verbs with at most one entry per check; with a keyword score
\* below 60 and email and phone both missing, the keyword recommendation
\* comes before the contact recommendation.
C8_RecommendationOrder ==
    IsAnalysis =>
        LET recs == ret.recommendations
        IN /\ \A i \in 1..Len(recs) : recs[i].action \in SeqToSet(CheckOrder)
           /\ \A i, j \in 1..Len(recs) : i < j => Rank(recs[i]) < Rank(recs[j])
           /\ (/\ RatLt(ret.keyword_analysis.score, RatInt(60))
               /\ ret.contact_info.email = None
               /\ ret.contact_info.phone = None) =>
                  \E i, j \in 1..Len(recs) :
                      /\ i < j
                      /\ recs[i].type = "keywords"
                      /\ recs[j].type = "contact"

\* low keyword score, no email, no phone, and at least four checks fire
C8_Witness ==
    /\ IsAnalysis
    /\ RatLt(ret.keyword_analysis.score, RatInt(60))
    /\ ret.contact_info.email = None
    /\ ret.contact_info.phone = None
    /\ Len(ret.recommendations) >= 4
    /\ ret.recommendations[1].priority = "high"
    /\ ret.recommendations[Len(ret.recommendations)].priority = "low"

\* C9: overallScore = 0.30 experience + 0.40 skills + 0.15 education +
\* 0.15 industry over the reported category scores, and lies in [0, 100].
C9_OverallScore ==
    IsMatch =>
        LET c == ret.category_scores
        IN /\ ret.overall_score =
                Rat(30 * c.experience * c.skills[2] + 40 * c.skills[1]
                    + 15 * c.education * c.skills[2]
                    + 15 * c.industry * c.skills[2], 100 * c.skills[2])
           /\ RatLe(RatInt(0), ret.overall_score)
           /\ RatLe(ret.overall_score, RatInt(100))

\* a match with a partial skills score: 0.3*60 + 0.4*40 + 0.15*75 + 0.15*70
C9_Witness ==
    /\ IsMatch
    /\ ret.category_scores.experience = 60
    /\ ret.category_scores.skills = RatInt(40)
    /\ ret.category_scores.education = 75
    /\ ret.category_scores.industry = 70
    /\ ret.overall_score = Rat(223, 4)

\* the found keywords of the resume handed to the match scorer
ResumeKeywords(resume) ==
    IF "keyword_analysis" \in DOMAIN resume
    THEN resume.keyword_analysis.found_keywords ELSE <<>>

\* the points of one skill list: its allocation times the share of its
\* skills that occur in some found keyword, the full allocation when empty
ListPoints(skills, keywords, allocation) ==
    IF Len(skills) = 0 THEN RatInt(allocation)
    ELSE Rat(allocation * Cardinality({i \in 1..Len(skills) :
                 \E k \in 1..Len(keywords) : StrIn(skills[i], keywords[k])}),
             Len(skills))

\* C10: skillsScore = min(100, 80 * requiredMatchRatio + 20 *
\* preferredMatchRatio); an empty list contributes its full allocation, so
\* with both lists empty the score is exactly 100.
C10_SkillsScore ==
    IsMatch =>
        LET skills == args.job_analysis.requirements.skills
            keywords == ResumeKeywords(args.resume_analysis)
            sum == RatAdd(ListPoints(skills.required_skills, keywords, 80),
                          ListPoints(skills.preferred_skills, keywords, 20))
        IN /\ ret.category_scores.skills = RatMin(RatInt(100), sum)
           /\ (skills.required_skills = <<>> /\ skills.preferred_skills = <<>>)
                  => ret.category_scores.skills = RatInt(100)

\* both skill lists are empty and the skills score is 100
C10_Witness ==
    /\ IsMatch
    /\ args.job_analysis.requirements.skills.required_skills = <<>>
    /\ args.job_analysis.requirements.skills.preferred_skills = <<>>
    /\ ret.category_scores.skills = RatInt(100)

\* the experience score of the job's min_years
ExperienceBucket(min_years) ==
    IF min_years = 0 THEN 90
    ELSE IF min_years \in 1..3 THEN 75
    ELSE 60

\* C11: experienceScore depends only on the job's minYears (90 when 0, 75
\* when 1 to 3, 60 otherwise): the match of any other resume with the same
\* job has the same experienceScore.
C11_ExperienceFromJobOnly ==
    IsMatch =>
        LET job == args.job_analysis
        IN /\ ret.category_scores.experience =
                  ExperienceBucket(job.requirements.experience.min_years)
           /\ \A other \in Resumes :
                  calculate_experience_match(other, job.requirements.experience)
                      = ret.category_scores.experience

\* a resume without a keyword analysis matched with a job asking for 3 years,
\* while the other resumes have one
C11_Witness ==
    /\ IsMatch
    /\ "keyword_analysis" \notin DOMAIN args.resume_analysis
    /\ \E other \in Resumes : "keyword_analysis" \in DOMAIN other
    /\ args.job_analysis.requirements.experience.min_years = 3
    /\ ret.category_scores.experience = 75

\* the industry the match scorer reads from a resume analysis
ResumeIndustry(resume) ==
    IF "detected_industry" \in DOMAIN resume THEN resume.detected_industry ELSE ""

\* C12: industryScore is 100 when the resume industry equals the job
\* industry, otherwise 70 when either of them is 'technology' or 'general',
\* otherwise 50.
C12_IndustryScore ==
    IsMatch =>
        LET ri == ResumeIndustry(args.resume_analysis)
            ji == args.job_analysis.industry
            transferable == {"technology", "general"}
        IN ret.category_scores.industry =
               IF ri = ji THEN 100
               ELSE IF ri \in transferable \/ ji \in transferable THEN 70
               ELSE 50

\* a technology resume matched with a job of another, non-transferable
\* industry scores 70
C12_Witness ==
    /\ IsMatch
    /\ ResumeIndustry(args.resume_analysis) = "technology"
    /\ args.job_analysis.industry = "sales"
    /\ ret.category_scores.industry = 70

-----------------------------------------------------------------------------
(* text extraction and the analysis of an uploaded file *)

\* An uploaded file is a record [format, units]: the container format of its
\* bytes and its pages (pdf), paragraphs (docx) or byte runs (plain).  A unit
\* is a text, or Unreadable: a page or paragraph whose extraction raises, or
\* a run of bytes that is no valid UTF-8.
Unreadable == "<unreadable>"

\* an exception that leaves a call
Raised(name) == [raised |-> name]

IsRaised(x) == DOMAIN x = {"raised"}

\* s.endswith(suffix)
EndsWith(s, suffix) ==
    /\ Len(suffix) <= Len(s)
    /\ SubSeq(s, Len(s) - Len(suffix) + 1, Len(s)) = suffix

\* the loop of an extractor over the units of a document; the exception of a
\* unit leaves the loop (the result Unreadable stands for the raised exception)
RECURSIVE ExtractLoop(_, _, _)
ExtractLoop(units, i, text) ==
    IF i > Len(units) THEN text
    ELSE IF units[i] = Unreadable THEN Unreadable
    ELSE ExtractLoop(units, i + 1, text \o units[i] \o "\n")

\* the units before the first one that cannot be extracted
RECURSIVE ReadablePrefix(_)
ReadablePrefix(units) ==
    IF Len(units) = 0 \/ units[1] = Unreadable THEN <<>>
    ELSE <<units[1]>> \o ReadablePrefix(Tail(units))

\* extract_text_from_pdf that returns the text collected before the failure
extract_text_from_pdf_partial(file_bytes) ==
    IF file_bytes.format # "pdf" THEN ""
    ELSE ExtractLoop(ReadablePrefix(file_bytes.units), 1, "")

\* PdfReader raises on bytes that are no PDF; any exception yields ""
extract_text_from_pdf(file_bytes) ==
    IF file_bytes.format # "pdf" THEN ""
    ELSE LET text == ExtractLoop(file_bytes.units, 1, "")
         IN IF text = Unreadable THEN "" ELSE text

\* Document raises on bytes that are no DOCX; any exception yields ""
extract_text_from_docx(file_bytes) ==
    IF file_bytes.format # "docx" THEN ""
    ELSE LET text == ExtractLoop(file_bytes.units, 1, "")
         IN IF text = Unreadable THEN "" ELSE text

\* file_bytes.decode('utf-8', errors='ignore'): invalid bytes are dropped; the
\* bytes of a PDF or DOCX container start with its signature
RECURSIVE decode(_)
decode(file_bytes) ==
    IF file_bytes.format = "pdf" THEN "%PDF-1.4"
    ELSE IF file_bytes.format = "docx" THEN "PK"
    ELSE IF Len(file_bytes.units) = 0 THEN ""
    ELSE (IF file_bytes.units[1] = Unreadable THEN "" ELSE file_bytes.units[1])
         \o decode([file_bytes EXCEPT !.units = Tail(@)])

\* filename.lower() raises on a missing filename; the exception leaves
\* parse_resume
parse_resume(file_bytes, filename) ==
    IF filename = None THEN Raised("AttributeError")
    ELSE LET name == lower(filename)
             text == IF EndsWith(name, ".pdf") THEN extract_text_from_pdf(file_bytes)
                     ELSE IF EndsWith(name, ".docx") \/ EndsWith(name, ".doc")
                          THEN extract_text_from_docx(file_bytes)
                     ELSE decode(file_bytes)
         IN IF strip(text) = ""
            THEN [error |-> "Could not extract text from resume"]
            ELSE analyze_resume_content(text)

\* the module-level analyze_resume_content of advanced_main
main_analyze_resume_content(file_bytes, filename, title) ==
    LET analysis == parse_resume(file_bytes, filename)
    IN IF IsRaised(analysis)
       THEN [industry |-> "general", experience_level |-> "mid",
             ats_score |-> Rat(55, 1),
             analysis |-> [strengths |-> <<"Resume uploaded">>,
                           weaknesses |-> <<"Analysis temporarily unavailable">>,
                           suggestions |-> <<"Please try again or contact support">>,
                           keyword_score |-> RatInt(55), format_score |-> RatInt(60),
                           content_score |-> RatInt(50)],
             recommendations |-> <<>>]
       ELSE IF "error" \in DOMAIN analysis
       THEN [industry |-> "general", experience_level |-> "mid",
             ats_score |-> Rat(60, 1),
             analysis |-> [strengths |-> <<"Resume uploaded successfully">>,
                           weaknesses |-> <<"Could not fully parse resume content">>,
                           suggestions |-> <<"Try uploading in PDF or DOCX format">>,
                           keyword_score |-> RatInt(60), format_score |-> RatInt(70),
                           content_score |-> RatInt(60)],
             text |-> "Resume content could not be extracted",
             recommendations |-> <<>>]
       ELSE [industry |-> Get(analysis, "detected_industry", "general"),
             experience_level |-> "mid",
             ats_score |-> Get(analysis, "ats_score", RatInt(0)),
             analysis |->
                 [strengths |-> Get(analysis, "strengths", <<>>),
                  weaknesses |-> Get(analysis, "weaknesses", <<>>),
                  suggestions |->
                      LET recs == Get(analysis, "recommendations", <<>>)
                      IN [i \in 1..Len(recs) |-> Get(recs[i], "description", "")],
                  keyword_score |-> Get(Get(analysis, "keyword_analysis", EmptyDict),
                                        "score", RatInt(0)),
                  format_score |-> RatMin(RatInt(100),
                                      RatAdd(Get(analysis, "ats_score", RatInt(0)),
                                             RatInt(10))),
                  content_score |-> Get(analysis, "ats_score", RatInt(0))],
             text |-> Get(analysis, "text", ""),
             word_count |-> Get(analysis, "word_count", 0),
             sections |-> Get(analysis, "sections", EmptyDict),
             contact_info |-> Get(analysis, "contact_info", EmptyDict),
             recommendations |-> Get(analysis, "recommendations", <<>>)]

\* most pages, paragraphs or byte runs of an uploaded file
MaxPages == 2

PageTexts == {"", " \t", "Skills\nPython, AWS", ScenarioA, Unreadable}

Files ==
    {[format |-> f, units |-> u] :
        f \in {"pdf", "docx", "plain"},
        u \in UNION {[1..n -> PageTexts] : n \in 0..MaxPages}}

Filenames == {"cv.pdf", "CV.PDF", "cv.docx", "cv.doc", "cv.txt", None}

\* one call of the module-level analyze_resume_content, as upload_resume
\* makes it
AnalyzeUploadedFile ==
    /\ op = "none"
    /\ UNCHANGED <<server, frame, chat>>
    /\ \E f \in Files, name \in Filenames :
        /\ op' = "main_analyze_resume_content"
        /\ args' = [file_bytes |-> f, filename |-> name, title |-> "CV"]
        /\ ret' = main_analyze_resume_content(f, name, "CV")

\* the analyses of uploaded files alone
UploadAnalysisSpec == Init /\ [][AnalyzeUploadedFile]_vars

IsUploadAnalysis == op = "main_analyze_resume_content"

\* the extractor that parse_resume picks for the filename
ExtractorOf(filename) ==
    IF filename = None THEN "none"
    ELSE IF \E e \in {".pdf", ".PDF"} : EndsWith(filename, e) THEN "pdf"
    ELSE IF \E e \in {".docx", ".doc"} : EndsWith(filename, e) THEN "docx"
    ELSE "plain"

\* the extractor raises: the bytes are not in its format, or one of the
\* pages or paragraphs cannot be extracted
ExtractionFails(file_bytes, filename) ==
    /\ ExtractorOf(filename) \in {"pdf", "docx"}
    /\ \/ file_bytes.format # ExtractorOf(filename)
       \/ \E i \in 1..Len(file_bytes.units) : file_bytes.units[i] = Unreadable

\* the text read from the file is empty or whitespace-only
NoText(file_bytes, filename) ==
    /\ ExtractorOf(filename) = file_bytes.format
    /\ \A i \in 1..Len(file_bytes.units) :
           file_bytes.units[i] # Unreadable => strip(file_bytes.units[i]) = ""

\* C13: when extraction fails on a page or paragraph, or the extracted text
\* is empty or whitespace-only (empty bytes included), the partial text is
\* discarded and the upload analysis is a fallback with atsScore <= 60 and a
\* non-empty weaknesses list; no call ends in an exception.
C13_FallbackOnExtractionFailure ==
    IsUploadAnalysis =>
        /\ ~IsRaised(ret)
        /\ (ExtractionFails(args.file_bytes, args.filename)
              \/ NoText(args.file_bytes, args.filename))
             => /\ RatLe(ret.ats_score, RatInt(60))
                /\ ret.analysis.weaknesses # <<>>
                /\ ret.text = "Resume content could not be extracted"
                /\ ret.recommendations = <<>>

\* a PDF whose first page holds a scored resume and whose second page cannot
\* be extracted gets the fallback analysis
C13_Witness ==
    /\ IsUploadAnalysis
    /\ args.filename = "cv.pdf"
    /\ args.file_bytes = [format |-> "pdf", units |-> <<ScenarioA, Unreadable>>]
    /\ ret.ats_score = RatInt(60)
    /\ ret.analysis.weaknesses = <<"Could not fully parse resume content">>

-----------------------------------------------------------------------------
(* JobMatcher: the job description parser *)

\* the literal occurs in s at position i
LiteralAt(s, i, literal) ==
    /\ i >= 1
    /\ i + Len(literal) - 1 <= Len(s)
    /\ SubSeq(s, i, i + Len(literal) - 1) = literal

\* the position after \s* matched from position i
SkipSpaces(s, i) == RunEnd(s, i, Whitespace) + 1

\* the position after an optional character of cls at position i
SkipOptional(s, i, cls) ==
    IF i <= Len(s) /\ Char(s, i) \in cls THEN i + 1 ELSE i

\* int(s) of a string of digits
RECURSIVE ToInt(_)
ToInt(s) ==
    IF Len(s) = 0 THEN 0
    ELSE 10 * ToInt(SubSeq(s, 1, Len(s) - 1))
         + (CHOOSE d \in 0..9 : ToString(d) = Char(s, Len(s)))

\* the maximal runs of digits of s as <<first, last>>, from left to right
DigitRuns(s) ==
    LET starts == SortedSeq({i \in 1..Len(s) :
                     /\ Char(s, i) \in Digits
                     /\ (i = 1 \/ Char(s, i - 1) \notin Digits)})
    IN [k \in 1..Len(starts) |-> <<starts[k], RunEnd(s, starts[k], Digits)>>]

\* requirement_patterns['experience'], as the part before and the part after
\* the group (\d+)
experience_patterns == <<
    "(\\d+)[\\+]?\\s*years?\\s*(?:of\\s*)?(?:experience|exp)",
    "(\\d+)[\\+]?\\s*years?\\s*(?:in|with|of)",
    "minimum\\s*(\\d+)\\s*years?",
    "at\\s*least\\s*(\\d+)\\s*years?"
>>

\* [\+]?\s*years? matched from position i: the position after it, 0 if none
YearsAt(s, i, plus) ==
    LET j == SkipSpaces(s, IF plus THEN SkipOptional(s, i, {"+"}) ELSE i)
    IN IF LiteralAt(s, j, "year") THEN SkipOptional(s, j + 4, {"s"}) ELSE 0

\* the experience pattern p matches with its group on the digit run
ExperienceMatchAt(s, p, run) ==
    LET before == RunStart(s, run[1] - 1, Whitespace)
        after  == YearsAt(s, run[2] + 1, p \in {1, 2})
        next   == SkipSpaces(s, after)
    IN /\ after # 0
       /\ CASE p = 1 -> LiteralAt(s, IF LiteralAt(s, next, "of")
                                     THEN SkipSpaces(s, next + 2) ELSE next, "exp")
            [] p = 2 -> \E w \in {"in", "with", "of"} : LiteralAt(s, next, w)
            [] p = 3 -> LiteralAt(s, before - 7, "minimum")
            [] p = 4 -> /\ LiteralAt(s, before - 5, "least")
                        /\ LiteralAt(s, RunStart(s, before - 6, Whitespace) - 2, "at")

\* re.findall(experience_patterns[p], s) converted by int
ExperienceFindall(s, p) ==
    LET runs == SelectSeq(DigitRuns(s), LAMBDA run : ExperienceMatchAt(s, p, run))
    IN [k \in 1..Len(runs) |-> ToInt(SubSeq(s, runs[k][1], runs[k][2]))]

\* the concatenation of the sequences f[1], ..., f[n]
RECURSIVE Flatten(_)
Flatten(f) ==
    IF Len(f) = 0 THEN <<>> ELSE f[1] \o Flatten(Tail(f))

\* extract_experience_requirements that takes the first collected value for
\* min_years
extract_experience_requirements_first_found(job_text) ==
    LET job_text_lower == lower(job_text)
        years_found == Flatten([p \in 1..Len(experience_patterns) |->
                                    ExperienceFindall(job_text_lower, p)])
        min_years == IF years_found # <<>> THEN years_found[1] ELSE 0
    IN [min_years |-> min_years,
        max_years |-> IF years_found # <<>> /\ Cardinality(SeqToSet(years_found)) > 1
                      THEN SetMax(SeqToSet(years_found)) ELSE None,
        level     |-> IF min_years = 0 THEN "entry"
                      ELSE IF min_years <= 2 THEN "junior"
                      ELSE IF min_years <= 5 THEN "mid"
                      ELSE "senior"]

\* the result without specific_experience, which no other computation reads
extract_experience_requirements(job_text) ==
    LET job_text_lower == lower(job_text)
        years_found == Flatten([p \in 1..Len(experience_patterns) |->
                                    ExperienceFindall(job_text_lower, p)])
        min_years == IF years_found # <<>> THEN SetMin(SeqToSet(years_found)) ELSE 0
    IN [min_years |-> min_years,
        max_years |-> IF years_found # <<>> /\ Cardinality(SeqToSet(years_found)) > 1
                      THEN SetMax(SeqToSet(years_found)) ELSE None,
        level     |-> IF min_years = 0 THEN "entry"
                      ELSE IF min_years <= 2 THEN "junior"
                      ELSE IF min_years <= 5 THEN "mid"
                      ELSE "senior"]

\* requirement_patterns['education']
education_patterns == <<
    "bachelor[\\'s]?\\s*(?:degree)?(?:\\s*in\\s*[\\w\\s]+)?",
    "master[\\'s]?\\s*(?:degree)?(?:\\s*in\\s*[\\w\\s]+)?",
    "phd|doctorate",
    "associate[\\'s]?\\s*degree",
    "high\\s*school|diploma"
>>

\* re.search(education_patterns[p], s) finds a match; everything after the
\* first word of the patterns 1 and 2 is optional
EducationSearch(s, p) ==
    CASE p = 1 -> StrIn("bachelor", s)
      [] p = 2 -> StrIn("master", s)
      [] p = 3 -> StrIn("phd", s) \/ StrIn("doctorate", s)
      [] p = 4 -> \E i \in Occurrences("associate", s) :
                      \/ LiteralAt(s, SkipSpaces(s, i + 9), "degree")
                      \/ LiteralAt(s, SkipSpaces(s, SkipOptional(s, i + 9, {"'", "s"})),
                                   "degree")
      [] p = 5 -> \/ StrIn("diploma", s)
                  \/ \E i \in Occurrences("high", s) :
                         LiteralAt(s, SkipSpaces(s, i + 4), "school")

\* the degree level that the loop body assigns for a pattern, None if none
PatternLevel(pattern) ==
    IF StrIn("bachelor", pattern) THEN "bachelor"
    ELSE IF StrIn("master", pattern) THEN "master"
    ELSE IF StrIn("phd", pattern) \/ StrIn("doctorate", pattern) THEN "doctorate"
    ELSE None

\* the loop over the education patterns from pattern p on; it breaks at the
\* first match
RECURSIVE EducationLoop(_, _, _)
EducationLoop(s, p, education_info) ==
    IF p > Len(education_patterns) THEN education_info
    ELSE IF EducationSearch(s, p)
    THEN [degree_required |-> TRUE,
          degree_level |-> IF PatternLevel(education_patterns[p]) # None
                           THEN PatternLevel(education_patterns[p])
                           ELSE education_info.degree_level]
    ELSE EducationLoop(s, p + 1, education_info)

\* the loop over the education patterns without the break
RECURSIVE EducationLoopNoBreak(_, _, _)
EducationLoopNoBreak(s, p, education_info) ==
    IF p > Len(education_patterns) THEN education_info
    ELSE IF EducationSearch(s, p)
    THEN EducationLoopNoBreak(s, p + 1,
             [degree_required |-> TRUE,
              degree_level |-> IF PatternLevel(education_patterns[p]) # None
                               THEN PatternLevel(education_patterns[p])
                               ELSE education_info.degree_level])
    ELSE EducationLoopNoBreak(s, p + 1, education_info)

\* extract_education_requirements whose loop goes on after a match
extract_education_requirements_no_break(job_text) ==
    EducationLoopNoBreak(lower(job_text), 1,
                         [degree_required |-> FALSE, degree_level |-> None])

\* the result without preferred_fields and certifications, which no other
\* computation reads
extract_education_requirements(job_text) ==
    EducationLoop(lower(job_text), 1,
                  [degree_required |-> FALSE, degree_level |-> None])

\* the heads of the skill patterns: each alternative is a sequence of
\* literals with \s* between them
required_patterns == <<
    << <<"required">>, <<"must", "have">>, <<"mandatory">> >>,
    << <<"experience", "in">>, <<"experience", "with">>,
       <<"proficient", "in">>, <<"proficient", "with">> >>
>>

preferred_patterns == <<
    << <<"preferred">>, <<"nice", "to", "have">>, <<"bonus">>, <<"plus">> >>,
    << <<"familiarity", "with">>, <<"knowledge", "of">> >>
>>

\* the position after the literals matched from position i, 0 if none
RECURSIVE LiteralsEnd(_, _, _)
LiteralsEnd(s, i, literals) ==
    IF Len(literals) = 0 THEN i
    ELSE IF LiteralAt(s, i, literals[1])
    THEN IF Len(literals) = 1 THEN i + Len(literals[1])
         ELSE LiteralsEnd(s, SkipSpaces(s, i + Len(literals[1])), Tail(literals))
    ELSE 0

\* the position after the head matched at position i, 0 if no alternative
\* of the head matches there
HeadEnd(s, i, head) ==
    LET ends == {LiteralsEnd(s, i, head[a]) : a \in 1..Len(head)} \ {0}
    IN IF ends = {} THEN 0 ELSE SetMin(ends)

\* re.findall(head[:,]?\s*([^.]+), s) from position pos on.  A head matches
\* where a character other than "." follows it; the match runs up to the
\* next "." and the scan goes on behind it.  The group starts after the
\* optional [:,] and the spaces, or is the last character before the "."
\* when these leave nothing.
RECURSIVE SkillFindall(_, _, _)
SkillFindall(s, pos, head) ==
    LET hits == {i \in pos..Len(s) :
                    /\ HeadEnd(s, i, head) # 0
                    /\ HeadEnd(s, i, head) <= Len(s)
                    /\ Char(s, HeadEnd(s, i, head)) # "."}
    IN IF hits = {} THEN <<>>
       ELSE LET h == HeadEnd(s, SetMin(hits), head)
                e == RunEnd(s, h, {c \in {Char(s, k) : k \in 1..Len(s)} : c # "."})
                g == SkipSpaces(s, SkipOptional(s, h, {":", ","}))
            IN <<SubSeq(s, IF g <= e THEN g ELSE e, e)>>
                   \o SkillFindall(s, e + 1, head)

\* re.sub(r'\band\b|\bor\b', ',', s) from position i on
RECURSIVE SubConnectors(_, _)
SubConnectors(s, i) ==
    IF i > Len(s) THEN ""
    ELSE IF Boundary(s, i) /\ LiteralAt(s, i, "and") /\ Boundary(s, i + 3)
    THEN "," \o SubConnectors(s, i + 3)
    ELSE IF Boundary(s, i) /\ LiteralAt(s, i, "or") /\ Boundary(s, i + 2)
    THEN "," \o SubConnectors(s, i + 2)
    ELSE Char(s, i) \o SubConnectors(s, i + 1)

\* s.split(',')
SplitCommas(s) ==
    LET at == SortedSeq({i \in 1..Len(s) : Char(s, i) = ","})
        cut == <<0>> \o at \o <<Len(s) + 1>>
    IN [k \in 1..(Len(at) + 1) |-> SubSeq(s, cut[k] + 1, cut[k + 1] - 1)]

\* the limit of skills per match
MaxSkillsPerMatch == 10

parse_skill_list(skill_text) ==
    LET parts == SplitCommas(SubConnectors(skill_text, 1))
        skills == [k \in 1..Len(parts) |-> strip(parts[k])]
        Kept(skill) == /\ Len(skill) > 2
                       /\ skill \notin {"etc", "experience", "knowledge", "work"}
    IN Take(SelectSeq(skills, Kept), MaxSkillsPerMatch)

\* the skills of the matches of the patterns, in the order of the loops
SkillsOf(s, patterns) ==
    Flatten([p \in 1..Len(patterns) |->
        LET matches == SkillFindall(s, 1, patterns[p])
        IN Flatten([m \in 1..Len(matches) |-> parse_skill_list(matches[m])])])

\* the result without categorized_skills and skill_frequency, which no
\* other computation reads
extract_skill_requirements(job_text) ==
    [required_skills  |-> SkillsOf(lower(job_text), required_patterns),
     preferred_skills |-> SkillsOf(lower(job_text), preferred_patterns)]

\* the industry keyword lists of detect_job_industry
job_industry_keywords == <<
    <<"technology", <<"software", "developer", "engineer", "programming",
                      "coding", "tech", "api", "database">> >>,
    <<"finance", <<"finance", "banking", "investment", "portfolio", "trading",
                   "financial", "accounting">> >>,
    <<"healthcare", <<"healthcare", "medical", "hospital", "patient", "clinical",
                      "health", "medicine">> >>,
    <<"marketing", <<"marketing", "advertising", "campaign", "brand", "digital",
                     "social media", "content">> >>,
    <<"sales", <<"sales", "business development", "account", "client",
                 "customer", "revenue">> >>,
    <<"consulting", <<"consulting", "consultant", "advisory", "strategy",
                      "business analyst">> >>
>>

\* sum(s.count(keyword) for keyword in keywords)
RECURSIVE SumCounts(_, _)
SumCounts(s, keywords) ==
    IF Len(keywords) = 0 THEN 0
    ELSE StrCount(s, keywords[1]) + SumCounts(s, Tail(keywords))

detect_job_industry(job_text) ==
    LET industry_scores_ == [i \in 1..Len(job_industry_keywords) |->
            <<job_industry_keywords[i][1],
              SumCounts(job_text, job_industry_keywords[i][2])>>]
    IN IF Len(industry_scores_) > 0 THEN MaxKey(industry_scores_) ELSE "general"

\* the result without keywords, job_level, benefits and company_info, which
\* the match scorer does not read
parse_job_description(job_text) ==
    [raw_text     |-> job_text,
     word_count   |-> WordCount(job_text),
     requirements |-> [experience |-> extract_experience_requirements(job_text),
                       education  |-> extract_education_requirements(job_text),
                       skills     |-> extract_skill_requirements(job_text)],
     industry     |-> detect_job_industry(lower(job_text))]

-----------------------------------------------------------------------------
(* the job descriptions *)

\* the most fragments a drawn job description is put together from
MaxJobFragments == 2

JobFragments == <<
    "Requires 5+ years of experience.",
    "Minimum 3 years in sales.",
    "At least 10 years with clients",
    "2 year exp",
    "12 apples.",
    "Bachelor's degree required.",
    "Master's degree in finance preferred.",
    "PhD or doctorate.",
    "Associates degree",
    "High school diploma.",
    "Must have: Python, SQL.",
    "Preferred: Docker.",
    "Experience with AWS and Rust or Go.",
    "Software developer"
>>

\* end-to-end scenario B
ScenarioB ==
    "Requires 5+ years of experience. Bachelor's degree required. Must have: Python, SQL. Preferred: Docker."

JobTexts ==
    UNION {{Join(" ", [i \in 1..n |-> JobFragments[f[i]]]) :
                f \in [1..n -> 1..Len(JobFragments)]} : n \in 0..MaxJobFragments}
        \cup {ScenarioB}

ExtractExperienceRequirements ==
    /\ op = "none"
    /\ UNCHANGED <<server, frame, chat>>
    /\ \E t \in JobTexts :
        /\ op' = "extract_experience_requirements"
        /\ args' = [job_text |-> t]
        /\ ret' = extract_experience_requirements(t)

ExtractEducationRequirements ==
    /\ op = "none"
    /\ UNCHANGED <<server, frame, chat>>
    /\ \E t \in JobTexts :
        /\ op' = "extract_education_requirements"
        /\ args' = [job_text |-> t]
        /\ ret' = extract_education_requirements(t)

ParseJobDescription ==
    /\ op = "none"
    /\ UNCHANGED <<server, frame, chat>>
    /\ \E t \in JobTexts :
        /\ op' = "parse_job_description"
        /\ args' = [job_text |-> t]
        /\ ret' = parse_job_description(t)

JobNext ==
    \/ ExtractExperienceRequirements
    \/ ExtractEducationRequirements
    \/ ParseJobDescription

\* the calls of the job description parser
JobSpec == Init /\ [][JobNext]_vars

-----------------------------------------------------------------------------
(* the claims about the job description parser *)

IsExperienceCall == op = "extract_experience_requirements"

IsEducationCall == op = "extract_education_requirements"

IsJobParse == op = "parse_job_description"

\* the experience patterns whose group matches the digit run
MatchingPatterns(s, run) ==
    {p \in 1..Len(experience_patterns) : ExperienceMatchAt(s, p, run)}

\* the year values matched by some experience pattern
CollectedYears(s) ==
    {ToInt(SubSeq(s, DigitRuns(s)[k][1], DigitRuns(s)[k][2])) :
        k \in {n \in 1..Len(DigitRuns(s)) : MatchingPatterns(s, DigitRuns(s)[n]) # {}}}

\* C16: extract_experience_requirements collects every year value matched by
\* any of the four experience patterns; minYears is their minimum (0 when
\* none) and maxYears their maximum only when two or more distinct values
\* were collected, otherwise null: a value matched by several patterns does
\* not by itself set maxYears.
C16_ExperienceYears ==
    IsExperienceCall =>
        LET years == CollectedYears(lower(args.job_text))
        IN /\ ret.min_years = IF years = {} THEN 0 ELSE SetMin(years)
           /\ ret.max_years = IF Cardinality(years) >= 2 THEN SetMax(years) ELSE None

\* one value, 5, is matched by two patterns and max_years stays null
C16_Witness ==
    /\ IsExperienceCall
    /\ LET s == lower(args.job_text)
       IN /\ Len(DigitRuns(s)) = 1
          /\ Cardinality(MatchingPatterns(s, DigitRuns(s)[1])) >= 2
    /\ ret.min_years = 5
    /\ ret.max_years = None

\* the level that the claim gives to each education pattern, in the order
\* bachelor, master, doctorate, associate, high-school
ClaimedLevels == <<"bachelor", "master", "doctorate", None, None>>

\* C17: the degree patterns are tested in the order bachelor, master,
\* doctorate, associate, high-school and the first match decides:
\* degreeRequired is true exactly when some pattern matches, degreeLevel is
\* the level of the first matching pattern, null for associate, high-school
\* or no match; a text naming a bachelor's and a master's degree yields
\* bachelor.
C17_FirstEducationMatch ==
    IsEducationCall =>
        LET s == lower(args.job_text)
            matching == {p \in 1..5 : EducationSearch(s, p)}
        IN /\ ret.degree_required = (matching # {})
           /\ ret.degree_level =
                  IF matching = {} THEN None ELSE ClaimedLevels[SetMin(matching)]
           /\ (StrIn("bachelor's", s) /\ StrIn("master's", s))
                  => ret.degree_level = "bachelor"

\* the text names a master's degree before a bachelor's degree and the level
\* is bachelor
C17_Witness ==
    /\ IsEducationCall
    /\ args.job_text = "Master's degree in finance preferred. Bachelor's degree required."
    /\ ret.degree_required
    /\ ret.degree_level = "bachelor"

-----------------------------------------------------------------------------
(* advanced_main: the resume and job handlers over the in-memory store.    *)
(* A handler runs without interruption up to an await; upload_resume waits *)
(* at "await file.read()", where other requests run.  file_size (random)   *)
(* and the timestamps of a stored resume feed nothing and are left out.    *)

\* raise HTTPException(status_code, detail), as the response of the request
HTTPException(status_code, detail) ==
    [status_code |-> status_code, detail |-> detail]

\* most upload requests of a run
MaxUploads == 2

\* the uploaded files with their filenames
Uploads == {
    <<[format |-> "plain", units |-> <<ScenarioA>>], "cv.txt">>,
    <<[format |-> "pdf", units |-> <<"Skills\nPython, AWS">>], "cv.pdf">>,
    <<[format |-> "pdf", units |-> <<ScenarioA, Unreadable>>], "cv.pdf">>
}

\* the job descriptions sent to the job handlers
JobDescriptions ==
    {"Software developer. Must have: Python.", "Minimum 3 years in sales."}

\* job_matcher.parse_job_description(d) and analyze_resume_content(file,
\* filename, title) for the inputs above, computed once
ParsedJobs == [d \in JobDescriptions |-> parse_job_description(d)]

AnalyzedUploads == [u \in Uploads |-> main_analyze_resume_content(u[1], u[2], "CV")]

\* the requests that a handler received
RequestsOf(handler) == SelectSeq(requests, LAMBDA request : request.handler = handler)

\* the requests when the resume stored under resume_id leaves the store
\* (pop, or a new dict stored under the same key): a handler that waits with
\* a reference to that dict keeps the dict as it is now
Detach(resume_id) ==
    [k \in 1..Len(requests) |->
        IF /\ requests[k].pc = "sleep"
           /\ requests[k].resume_id = resume_id
           /\ requests[k].detached = <<>>
           /\ resume_id \in DOMAIN uploaded_resumes
        THEN [requests[k] EXCEPT !.detached = <<uploaded_resumes[resume_id]>>]
        ELSE requests[k]]

\* upload_resume up to "await file.read()"; response_id is the id of the
\* response, 0 before the handler returns
UploadResumeStart ==
    /\ Len(RequestsOf("upload_resume")) < MaxUploads
    /\ \E u \in Uploads :
        requests' = Append(requests, [handler |-> "upload_resume",
                                      file |-> u[1], filename |-> u[2],
                                      title |-> "CV", pc |-> "read",
                                      response_id |-> 0])
    /\ resume_counter' = resume_counter + 1
    /\ UNCHANGED <<op, args, ret, uploaded_resumes, resume_processor, frame, chat>>

\* the new_resume dict of upload_resume: the analysis of the file read, then
\* the fields the handler sets
new_resume(request, id) ==
    AnalyzedUploads[<<request.file, request.filename>>] @@
    [id |-> id, title |-> request.title, file_name |-> request.filename,
     optimization_history |-> <<>>]

\* upload_resume whose stored ATS score depends on the number of uploads
\* received before
UploadResumeFinishCounting ==
    \E q \in 1..Len(requests) :
        /\ requests[q].pc = "read"
        /\ uploaded_resumes' =
               DictSet(uploaded_resumes, resume_counter,
                       [ats_score |-> RatInt(resume_counter)] @@
                       new_resume(requests[q], resume_counter))
        /\ op' = "upload_resume"
        /\ args' = [request |-> q, file |-> requests[q].file,
                    title |-> requests[q].title]
        /\ ret' = uploaded_resumes'[resume_counter]
        /\ requests' = [Detach(resume_counter) EXCEPT
                            ![q].pc = "done", ![q].response_id = resume_counter]
        /\ UNCHANGED <<resume_counter, resume_processor, frame, chat>>

\* upload_resume from "await file.read()" to its return: the new resume is
\* stored under the current value of the counter and returned with a message
UploadResumeFinish ==
    \E q \in 1..Len(requests) :
        /\ requests[q].pc = "read"
        /\ uploaded_resumes' =
               DictSet(uploaded_resumes, resume_counter,
                       new_resume(requests[q], resume_counter))
        /\ op' = "upload_resume"
        /\ args' = [request |-> q, file |-> requests[q].file,
                    title |-> requests[q].title]
        /\ ret' = uploaded_resumes'[resume_counter] @@
                  [message |-> "Resume uploaded and analyzed successfully!"]
        /\ requests' = [Detach(resume_counter) EXCEPT
                            ![q].pc = "done", ![q].response_id = resume_counter]
        /\ UNCHANGED <<resume_counter, resume_processor, frame, chat>>

AnalyzeJobDescription ==
    /\ \E job_description \in JobDescriptions :
        /\ op' = "analyze_job_description"
        /\ args' = [job_description |-> job_description]
        /\ ret' = [job_analysis |-> ParsedJobs[job_description],
                   message |-> "Job description analyzed successfully"]
    /\ UNCHANGED <<server, frame, chat>>

MatchJobWithResume ==
    /\ \E resume_id \in 1..(MaxUploads + 2), job_description \in JobDescriptions :
        /\ op' = "match_job_with_resume"
        /\ args' = [resume_id |-> resume_id, job_description |-> job_description]
        /\ ret' = IF resume_id \notin DOMAIN uploaded_resumes
                  THEN HTTPException(404, "Resume not found")
                  ELSE LET resume == uploaded_resumes[resume_id]
                           job_analysis == ParsedJobs[job_description]
                           match_result == calculate_match_score(resume, job_analysis)
                       IN [resume_id |-> resume_id,
                           job_analysis |-> job_analysis,
                           match_result |-> match_result,
                           recommendations |-> match_result.recommendations]
    /\ UNCHANGED <<server, frame, chat>>

ServerNext ==
    \/ UploadResumeStart
    \/ UploadResumeFinish
    \/ AnalyzeJobDescription
    \/ MatchJobWithResume

\* the API server: uploads, job analyses and matches in any interleaving
ServerSpec == Init /\ [][ServerNext]_vars

-----------------------------------------------------------------------------
(* the claims about the API server *)

IsUpload == op = "upload_resume"

IsServerMatch == op = "match_job_with_resume" /\ "match_result" \in DOMAIN ret

\* the stored resumes that hold the text of an analysis
AnalyzedResumes == {i \in DOMAIN uploaded_resumes : "text" \in DOMAIN uploaded_resumes[i]}

\* the industry, the keyword score and the ATS score kept of an analysis
Signals(resume) == <<resume.industry, resume.analysis.keyword_score, resume.ats_score>>

Covered(skills, found_keywords) ==
    \A k \in 1..Len(skills) :
        \E n \in 1..Len(found_keywords) : StrIn(skills[k], lower(found_keywords[n]))

\* C15: a match requested for an uploaded resume is computed from the
\* signals of that resume's own analysis: when its found keywords cover every
\* required job skill the required skills count in full (skillsScore >= 80),
\* and when its detected industry equals the job's industry the
\* industryScore is 100.
C15_MatchUsesOwnSignals ==
    (IsServerMatch /\ args.resume_id \in AnalyzedResumes
        /\ "word_count" \in DOMAIN uploaded_resumes[args.resume_id]) =>
        LET own == analyze_resume_content(uploaded_resumes[args.resume_id].text)
            job == ret.job_analysis
            required == job.requirements.skills.required_skills
            scores == ret.match_result.category_scores
        IN /\ (required # <<>> /\ Covered(required, own.keyword_analysis.found_keywords))
                  => RatLe(RatInt(80), scores.skills)
           /\ own.detected_industry = job.industry => scores.industry = 100

-----------------------------------------------------------------------------
(* the industry classifier alone *)

\* the most words of a drawn text
MaxIndustryWords == 3

\* keywords of the four industries; "rn" counts for healthcare and, by its
\* "r", for finance
IndustryWords == <<"java", "seo", "canva", "excel", "epic", "rn">>

IndustryTexts ==
    UNION {{Join(" ", [i \in 1..n |-> IndustryWords[f[i]]]) :
                f \in [1..n -> 1..Len(IndustryWords)]} : n \in 0..MaxIndustryWords}

DetectIndustry ==
    /\ op = "none"
    /\ UNCHANGED <<server, frame, chat>>
    /\ \E t \in IndustryTexts :
        /\ op' = "detect_industry"
        /\ args' = [text |-> t]
        /\ ret' = detect_industry(t)

\* the calls of the industry classifier
IndustrySpec == Init /\ [][DetectIndustry]_vars

IsDetect == op = "detect_industry"

\* the industries in the order of their declaration
DeclaredIndustries == <<"technology", "marketing", "finance", "healthcare">>

\* the score of an industry: the occurrences of its keywords in the text
IndustryScore(industry, text) == SumCounts(text, IndustryKeywordList(industry))

\* C18: detect_industry returns an industry whose score is the maximum over
\* all industries, and of several industries with the maximum score the one
\* declared first in the industry keyword dictionary.
C18_FirstMaxIndustry ==
    IsDetect =>
        \E i \in 1..Len(DeclaredIndustries) :
            /\ ret = DeclaredIndustries[i]
            /\ \A j \in 1..Len(DeclaredIndustries) :
                   IndustryScore(DeclaredIndustries[j], args.text)
                       <= IndustryScore(ret, args.text)
            /\ \A j \in 1..(i - 1) :
                   IndustryScore(DeclaredIndustries[j], args.text)
                       < IndustryScore(ret, args.text)

\* marketing and finance share the greatest score and marketing, declared
\* before finance, is returned
C18_Witness ==
    /\ IsDetect
    /\ ret = "marketing"
    /\ IndustryScore("marketing", args.text) = 1
    /\ IndustryScore("finance", args.text) = 1
    /\ IndustryScore("technology", args.text) = 0

-----------------------------------------------------------------------------
(* extract_sections line by line: frame holds the local variables of the   *)
(* call, frame.i is the line the for loop is at                            *)

\* one iteration of the for loop of extract_sections that keeps the lines
\* in front of the first header
SectionStepKeepAll(f) ==
    LET line == f.text_lines[f.i]
        key  == HeaderKey(strip(lower(line)))
    IN IF key # None
       THEN [f EXCEPT !.i = @ + 1,
                      !.sections = Flush(@, f.current_section, f.section_content),
                      !.current_section = key,
                      !.section_content = <<>>]
       ELSE [f EXCEPT !.i = @ + 1,
                      !.section_content = Append(@, line)]

\* one iteration of the for loop of extract_sections
SectionStep(f) ==
    LET line == f.text_lines[f.i]
        key  == HeaderKey(strip(lower(line)))
    IN IF key # None
       THEN [f EXCEPT !.i = @ + 1,
                      !.sections = Flush(@, f.current_section, f.section_content),
                      !.current_section = key,
                      !.section_content = <<>>]
       ELSE [f EXCEPT !.i = @ + 1,
                      !.section_content = IF Truthy(f.current_section)
                                          THEN Append(@, line) ELSE @]

\* the most lines of a drawn text
MaxLines == 3

SectionLines == <<
    "John Doe", "Experience", "Built APIs", "", "Education", "Skills Summary",
    "Work Experience and Education"
>>

\* texts in which the header of one section occurs more than once
RepeatedHeaderTexts == {
    "Experience\nBuilt APIs\nWork Experience and Education\nJohn Doe\nExperience",
    "Experience\nBuilt APIs\n\nEmployment\nJohn Doe\nEducation\nBSc\nWork History",
    "Skills\nPython\nEducation\nBSc\nTechnical Skills\n\nSkills Summary"
}

SectionTexts ==
    UNION {{Join("\n", [i \in 1..n |-> SectionLines[f[i]]]) :
                f \in [1..n -> 1..Len(SectionLines)]} : n \in 0..MaxLines}
        \cup RepeatedHeaderTexts

ExtractSectionsCall ==
    /\ op = "none"
    /\ \E t \in SectionTexts :
        /\ op' = "extract_sections"
        /\ args' = [text |-> t]
        /\ frame' = [pc |-> "loop", text_lines |-> SplitLines(t), i |-> 1,
                     sections |-> EmptyDict, current_section |-> None,
                     section_content |-> <<>>]
    /\ UNCHANGED <<ret, server, chat>>

ExtractSectionsStep ==
    /\ frame.pc = "loop"
    /\ frame.i <= Len(frame.text_lines)
    /\ frame' = SectionStep(frame)
    /\ UNCHANGED <<op, args, ret, server, chat>>

\* the flush of the last section and the return
ExtractSectionsReturn ==
    /\ frame.pc = "loop"
    /\ frame.i > Len(frame.text_lines)
    /\ ret' = Flush(frame.sections, frame.current_section, frame.section_content)
    /\ frame' = [frame EXCEPT !.pc = "done", !.sections = ret']
    /\ UNCHANGED <<op, args, server, chat>>

SectionsNext ==
    \/ ExtractSectionsCall
    \/ ExtractSectionsStep
    \/ ExtractSectionsReturn

\* the calls of extract_sections
SectionsSpec == Init /\ [][SectionsNext]_vars

\* the line-by-line run returns what extract_sections returns
SectionsAgree == frame.pc = "done" => ret = extract_sections(args.text)

-----------------------------------------------------------------------------
(* the claims about extract_sections *)

\* the section categories in the order of their declaration
DeclaredSections ==
    <<"experience", "education", "skills", "summary", "projects", "certifications">>

\* the categories (by position) of which a header keyword occurs in the line
Categories(line) ==
    {k \in 1..Len(section_headers) :
        \E h \in 1..Len(section_headers[k][2]) :
            StrIn(section_headers[k][2][h], strip(lower(line)))}

IsHeaderLine(line) == Categories(line) # {}

\* one iteration of the scan: a non-header line joins the accumulator only
\* when a section is open; a header line stores the accumulated lines under
\* the open section when both are non-empty, and empties the accumulator
ScanStep ==
    (frame.pc = "loop" /\ frame'.pc = "loop") =>
        LET line == frame.text_lines[frame.i]
        IN IF ~IsHeaderLine(line)
           THEN /\ frame'.sections = frame.sections
                /\ frame'.current_section = frame.current_section
                /\ frame'.section_content =
                       IF frame.current_section = None THEN <<>>
                       ELSE Append(frame.section_content, line)
           ELSE /\ frame'.section_content = <<>>
                /\ frame'.current_section
                       \in {DeclaredSections[k] : k \in Categories(line)}
                /\ frame'.sections =
                       IF frame.current_section # None /\ frame.section_content # <<>>
                       THEN [k \in DOMAIN frame.sections \cup {frame.current_section} |->
                                IF k = frame.current_section
                                THEN Join("\n", frame.section_content)
                                ELSE frame.sections[k]]
                       ELSE frame.sections

\* every section text of the output is the block of non-header lines that
\* follows one header line of that section, up to the next header line
BlocksOnly ==
    frame.pc = "done" =>
        LET lines == frame.text_lines
        IN \A key \in DOMAIN ret :
               \E h \in 1..Len(lines), e \in 1..Len(lines) :
                   /\ h < e
                   /\ \E k \in Categories(lines[h]) : DeclaredSections[k] = key
                   /\ \A n \in (h + 1)..e : ~IsHeaderLine(lines[n])
                   /\ e = Len(lines) \/ IsHeaderLine(lines[e + 1])
                   /\ ret[key] = Join("\n", SubSeq(lines, h + 1, e))

\* C19: extract_sections scans the lines in order; a non-header line gets
\* into the output only if a header line precedes it, and only into the
\* section of the nearest preceding header line; lines before the first
\* header are in no section; on each header line the lines accumulated since
\* the previous header are stored, joined by newline, under the previous
\* section when that section and the accumulator are both non-empty.
C19_LinesFollowNearestHeader == []BlocksOnly /\ [][ScanStep]_vars

\* a line in front of the first header is dropped and the line after the
\* header is the text of its section
C19_Witness ==
    /\ frame.pc = "done"
    /\ frame.text_lines = <<"John Doe", "Experience", "Built APIs">>
    /\ DOMAIN ret = {"experience"}
    /\ ret["experience"] = "Built APIs"

\* C20: a line with header keywords of two or more categories is assigned
\* to the category declared earliest (experience, education, skills,
\* summary, projects, certifications) and opens only that section.
C20_EarliestCategoryWins ==
    /\ (frame.pc = "loop" /\ frame.i > 1) =>
           LET cats == Categories(frame.text_lines[frame.i - 1])
           IN Cardinality(cats) >= 2 =>
                  /\ frame.current_section = DeclaredSections[SetMin(cats)]
                  /\ frame.section_content = <<>>
    /\ frame.pc = "done" =>
           LET lines == frame.text_lines
               headers == {n \in 1..Len(lines) : IsHeaderLine(lines[n])}
           IN \A n \in headers :
                  (headers = {n} /\ Cardinality(Categories(lines[n])) >= 2)
                      => DOMAIN ret \subseteq {DeclaredSections[SetMin(Categories(lines[n]))]}

\* the line "Skills Summary" opens the skills section and no summary section
C20_Witness ==
    /\ frame.pc = "done"
    /\ frame.text_lines = <<"Skills Summary", "Built APIs">>
    /\ DOMAIN ret = {"skills"}
    /\ ret["skills"] = "Built APIs"

-----------------------------------------------------------------------------
(* repeated headers in extract_sections                                     *)

\* the lines of the text that are headers of the section key
HeaderLinesOf(lines, key) ==
    {h \in 1..Len(lines) : HeaderKey(strip(lower(lines[h]))) = key}

\* the non-header lines between the header line h and the next header line
BlockAfter(lines, h) ==
    LET later == {n \in (h + 1)..Len(lines) : HeaderKey(strip(lower(lines[n]))) # None}
        stop  == IF later = {} THEN Len(lines) + 1 ELSE SetMin(later)
    IN SubSeq(lines, h + 1, stop - 1)

\* the header lines of the section key that a non-header line follows
FollowedHeaders(lines, key) ==
    {h \in HeaderLinesOf(lines, key) : BlockAfter(lines, h) # <<>>}

\* C29: when the header of one section occurs more than once, the text
\* stored for the section is the block of lines after the last occurrence
\* that has at least one following non-header line; earlier blocks of the
\* section are replaced, not concatenated; a section none of whose headers
\* is followed by a line is not in the output; no header line is part of
\* the text of any section.
C29_LastFollowedHeaderWins ==
    frame.pc = "done" =>
        \A k \in 1..Len(DeclaredSections) :
            LET key == DeclaredSections[k]
                followed == FollowedHeaders(frame.text_lines, key)
            IN IF followed = {}
               THEN key \notin DOMAIN ret
               ELSE /\ key \in DOMAIN ret
                    /\ ret[key] = Join("\n", BlockAfter(frame.text_lines, SetMax(followed)))
                    /\ \A n \in 1..Len(SplitLines(ret[key])) :
                           HeaderKey(strip(lower(SplitLines(ret[key])[n]))) = None

\* three headers of the experience section: the block of the second replaces
\* the block of the first, and the third, followed by nothing, changes nothing
C29_Witness ==
    /\ frame.pc = "done"
    /\ frame.text_lines = <<"Experience", "Built APIs", "Work Experience and Education",
                            "John Doe", "Experience">>
    /\ Cardinality(FollowedHeaders(frame.text_lines, "experience")) = 2
    /\ DOMAIN ret = {"experience"}
    /\ ret["experience"] = "John Doe"

-----------------------------------------------------------------------------
(* the insights of a match alone: generate_match_insights called with any  *)
(* category scores                                                          *)

\* the most required skills of a drawn job; the insights look at the first 5
MaxRequired == 6

\* category scores on both sides of the thresholds 60, 70 and 80
ThresholdScores == {59, 60, 69, 80}

InsightScores ==
    {[experience |-> e, skills |-> RatInt(s), education |-> d, industry |-> i] :
        e \in ThresholdScores, s \in ThresholdScores,
        d \in {59, 60, 80}, i \in {59, 60, 80}}

\* required skill lists as the job parser yields them: none, short ones, and
\* lists of more than five skills
RequiredLists ==
    {Take(l, n) : n \in {0, 2, MaxRequired},
        l \in {<<"excel", "sap", "tableau", "python", "budgeting", "rust">>,
               <<"excel", "rust", "java", "scala", "kotlin", "swift">>}}

InsightJobs ==
    {[requirements |->
         [experience |-> [min_years |-> 0],
          skills     |-> [required_skills |-> r, preferred_skills |-> <<>>],
          education  |-> [degree_required |-> FALSE]],
      industry |-> "finance"] : r \in RequiredLists}

InsightResumes ==
    {analyze_resume_content(KeywordText("finance", 37)),
     [industry |-> "technology"]}

GenerateMatchInsights ==
    /\ op = "none"
    /\ UNCHANGED <<server, frame, chat>>
    /\ \E r \in InsightResumes, j \in InsightJobs, s \in InsightScores :
        /\ op' = "generate_match_insights"
        /\ args' = [resume |-> r, job |-> j, scores |-> s]
        /\ ret' = generate_match_insights(r, j, s)

\* the calls of the insight generator alone
InsightsSpec == Init /\ [][GenerateMatchInsights]_vars

IsInsights == op = "generate_match_insights"

MatchCategories == {"experience", "skills", "education", "industry"}

\* the score of a category as a rational
ScoreOf(scores, category) ==
    IF category = "skills" THEN scores.skills ELSE RatInt(scores[category])

StrongCategories(scores) ==
    {c \in MatchCategories : RatLe(RatInt(80), ScoreOf(scores, c))}

WeakCategories(scores) ==
    {c \in MatchCategories : RatLt(ScoreOf(scores, c), RatInt(60))}

\* C21 as stated: generate_match_insights emits one strength statement for
\* each of the four categories whose score is >= 80 and one gap statement for
\* each of the four categories whose score is < 60.
C21_StatementPerCategory ==
    IsInsights =>
        /\ Len(ret.strengths) = Cardinality(StrongCategories(args.scores))
        /\ Len(ret.gaps) = Cardinality(WeakCategories(args.scores))

\* the statements that exist: none for a strong education, none for a weak
\* industry
StrengthStatement ==
    [skills     |-> "Strong skills alignment with job requirements",
     experience |-> "Experience level matches job expectations",
     industry   |-> "Strong industry background for this role"]

GapStatement ==
    [skills     |-> "Missing several key technical skills",
     experience |-> "Experience level below job requirements",
     education  |-> "Education requirements not fully met"]

\* C21 (amended): generate_match_insights emits the strength statement of
\* skills, experience and industry exactly when that category's score is
\* >= 80, and the gap statement of skills, experience and education exactly
\* when that category's score is < 60, each once; the education score yields
\* no strength statement and the industry score no gap statement.
C21_StatementPerReportedCategory ==
    IsInsights =>
        /\ SeqToSet(ret.strengths) =
               {StrengthStatement[c] :
                   c \in StrongCategories(args.scores) \cap DOMAIN StrengthStatement}
        /\ Len(ret.strengths) = Cardinality(SeqToSet(ret.strengths))
        /\ SeqToSet(ret.gaps) =
               {GapStatement[c] :
                   c \in WeakCategories(args.scores) \cap DOMAIN GapStatement}
        /\ Len(ret.gaps) = Cardinality(SeqToSet(ret.gaps))

\* a call with an experience score of exactly 60 (no gap), a strong
\* education (no strength statement), a weak industry (no gap statement)
\* and weak skills (the one gap statement)
C21_Witness ==
    /\ IsInsights
    /\ args.scores.experience = 60
    /\ args.scores.education = 80
    /\ args.scores.industry = 59
    /\ args.scores.skills = RatInt(59)
    /\ ret.strengths = <<>>
    /\ ret.gaps = <<"Missing several key technical skills">>

\* the recommendations of one type
OfType(recommendations, type) ==
    SelectSeq(recommendations, LAMBDA rec : rec.type = type)

\* the required skills of the job that no found keyword of the resume
\* contains, in job order
UnmatchedRequired(resume, job) ==
    LET found == LowerAll(ResumeKeywords(resume))
    IN SelectSeq(job.requirements.skills.required_skills,
                 LAMBDA skill : ~Covered(<<lower(skill)>>, found))

\* C22: generate_match_insights emits at most one "add missing required
\* skills" recommendation, present exactly when some required job skill is
\* unmatched by the resume's found keywords, listing the first five unmatched
\* required skills in job order; it emits one "highlight relevant experience"
\* recommendation exactly when the experience score is < 70.
C22_MissingSkillsRecommendation ==
    IsInsights =>
        LET unmatched == UnmatchedRequired(args.resume, args.job)
            add_skills == OfType(ret.recommendations, "add_skills")
            highlight == OfType(ret.recommendations, "highlight_experience")
        IN /\ Len(add_skills) <= 1
           /\ Len(add_skills) = 1 <=> unmatched # <<>>
           /\ Len(add_skills) = 1 => add_skills[1].skills = Take(unmatched, 5)
           /\ Len(highlight) = (IF args.scores.experience < 70 THEN 1 ELSE 0)

-----------------------------------------------------------------------------
(* job_matcher: keyword and phrase frequencies of a job description *)

\* nltk's stopwords.words('english')
stop_words ==
    {"i", "me", "my", "myself", "we", "our", "ours", "ourselves", "you",
     "you're", "you've", "you'll", "you'd", "your", "yours", "yourself",
     "yourselves", "he", "him", "his", "himself", "she", "she's", "her",
     "hers", "herself", "it", "it's", "its", "itself", "they", "them",
     "their", "theirs", "themselves", "what", "which", "who", "whom", "this",
     "that", "that'll", "these", "those", "am", "is", "are", "was", "were",
     "be", "been", "being", "have", "has", "had", "having", "do", "does",
     "did", "doing", "a", "an", "the", "and", "but", "if", "or", "because",
     "as", "until", "while", "of", "at", "by", "for", "with", "about",
     "against", "between", "into", "through", "during", "before", "after",
     "above", "below", "to", "from", "up", "down", "in", "out", "on", "off",
     "over", "under", "again", "further", "then", "once", "here", "there",
     "when", "where", "why", "how", "all", "any", "both", "each", "few",
     "more", "most", "other", "some", "such", "no", "nor", "not", "only",
     "own", "same", "so", "than", "too", "very", "s", "t", "can", "will",
     "just", "don", "don't", "should", "should've", "now", "d", "ll", "m",
     "o", "re", "ve", "y", "ain", "aren", "aren't", "couldn", "couldn't",
     "didn", "didn't", "doesn", "doesn't", "hadn", "hadn't", "hasn",
     "hasn't", "haven", "haven't", "isn", "isn't", "ma", "mightn",
     "mightn't", "mustn", "mustn't", "needn", "needn't", "shan", "shan't",
     "shouldn", "shouldn't", "wasn", "wasn't", "weren", "weren't", "won",
     "won't", "wouldn", "wouldn't"}

\* s.split(): the maximal runs of non-whitespace characters
split(s) ==
    LET starts == SortedSeq({i \in 1..Len(s) :
                        /\ Char(s, i) \notin Whitespace
                        /\ (i = 1 \/ Char(s, i - 1) \in Whitespace)})
        WordEnd(i) ==
            LET blanks == {j \in i..Len(s) : Char(s, j) \in Whitespace}
            IN IF blanks = {} THEN Len(s) ELSE SetMin(blanks) - 1
    IN [k \in 1..Len(starts) |-> SubSeq(s, starts[k], WordEnd(starts[k]))]

\* s.isalpha()
isalpha(s) == Len(s) > 0 /\ \A i \in 1..Len(s) : Char(s, i) \in Letters

\* Counter(seq): the distinct elements with their counts, in the order of
\* their first occurrence
Counter(seq) ==
    LET first == SortedSeq({i \in 1..Len(seq) : \A j \in 1..(i - 1) : seq[j] # seq[i]})
    IN [k \in 1..Len(first) |->
           <<seq[first[k]],
             Cardinality({i \in 1..Len(seq) : seq[i] = seq[first[k]]})>>]

\* counter.most_common(n): the n highest counts, equal counts in the order
\* of first occurrence
RECURSIVE most_common(_, _)
most_common(counter, n) ==
    IF n = 0 \/ Len(counter) = 0 THEN <<>>
    ELSE LET top == SetMax({counter[i][2] : i \in 1..Len(counter)})
             at  == SetMin({i \in 1..Len(counter) : counter[i][2] = top})
         IN <<counter[at]>> \o
            most_common(SubSeq(counter, 1, at - 1) \o
                        SubSeq(counter, at + 1, Len(counter)), n - 1)

\* the adjacent two-word phrases of the words
Bigrams(words) == [i \in 1..(Len(words) - 1) |-> words[i] \o " " \o words[i + 1]]

\* word_tokenize yields the words of split() on a text of letters and blanks
extract_keywords(job_text) ==
    LET tokens == SelectSeq(split(lower(job_text)),
                            LAMBDA token : isalpha(token) /\ token \notin stop_words)
        word_freq == Counter(tokens)
        words == split(lower(job_text))
        phrases == SelectSeq(Bigrams(words),
                             LAMBDA phrase :
                                 /\ Len(phrase) > 6
                                 /\ ~\E stop \in stop_words : StrIn(stop, phrase))
        phrase_freq == Counter(phrases)
    IN [top_words          |-> most_common(word_freq, 20),
        top_phrases        |-> most_common(phrase_freq, 10),
        total_unique_words |-> Len(word_freq),
        total_words        |-> Len(tokens)]

\* the most words of a drawn job text
MaxWords == 3

\* stop-words, words that hold a stop-word as a substring, and words that
\* hold none
KeywordWords == <<"the", "of", "python", "kernel", "bug", "ux">>

\* a text with more than ten distinct phrases free of stop-words
ManyPhrases ==
    "kernel kernel bug bug grpc grpc kernel grpc bug kernel ux kernel ux grpc"

KeywordJobTexts ==
    {ManyPhrases} \cup
    UNION {{Join(" ", [i \in 1..n |-> KeywordWords[f[i]]]) :
               f \in [1..n -> 1..Len(KeywordWords)]} : n \in 0..MaxWords}

ExtractKeywords ==
    /\ op = "none"
    /\ UNCHANGED <<server, frame, chat>>
    /\ \E job_text \in KeywordJobTexts :
        /\ op' = "extract_keywords"
        /\ args' = [job_text |-> job_text]
        /\ ret' = extract_keywords(job_text)

\* the calls of the keyword extraction alone
KeywordsSpec == Init /\ [][ExtractKeywords]_vars

IsExtractKeywords == op = "extract_keywords"

\* the phrases the count is meant to hold: longer than 6 characters and not
\* made of two stop-words
CountedPhrases(words) ==
    LET both == {i \in 1..(Len(words) - 1) :
                    words[i] \in stop_words /\ words[i + 1] \in stop_words}
        keep == SortedSeq({i \in 1..(Len(words) - 1) :
                    Len(Bigrams(words)[i]) > 6 /\ i \notin both})
    IN [k \in 1..Len(keep) |-> Bigrams(words)[keep[k]]]

\* C23: extract_keywords counts an adjacent two-word phrase of the job text
\* exactly when the phrase is longer than 6 characters and its two words are
\* not both stop-words (a phrase with at most one stop-word is counted), and
\* topPhrases holds the 10 most frequent counted phrases.
C23_PhrasesNotAllStopWords ==
    IsExtractKeywords =>
        ret.top_phrases =
            most_common(Counter(CountedPhrases(split(lower(args.job_text)))), 10)

-----------------------------------------------------------------------------
(* concurrent requests on the in-memory store *)

\* the upload requests that were answered
CompletedUploads ==
    {q \in 1..Len(requests) :
        requests[q].handler = "upload_resume" /\ requests[q].pc = "done"}

\* C24: under any interleaving of concurrent upload requests, every completed
\* upload gets a resume id that no other upload received, and every uploaded
\* resume stays retrievable under its own id (no resume is deleted here): no
\* upload overwrites the stored entry of another.
C24_UploadIdsUnique ==
    \A p \in CompletedUploads :
        /\ \A q \in CompletedUploads \ {p} :
               requests[p].response_id # requests[q].response_id
        /\ requests[p].response_id \in DOMAIN uploaded_resumes
        /\ uploaded_resumes[requests[p].response_id].file_name = requests[p].filename

\* most optimize requests of a run that pass the existence check
MaxOptimizes == 2

\* resume ids of the delete and optimize requests
ResumeIds == 1..(MaxUploads + 1)

OptimizationTypes == {"ATS Keyword Optimizer", "Tone Adjuster"}

optimization_results ==
    [x \in {"ATS Keyword Optimizer", "Experience Section Enhancer",
            "Skills Hierarchy Creator"} |->
        CASE x = "ATS Keyword Optimizer" ->
                 [title |-> "ATS Keyword Optimization",
                  improvements |->
                      <<"Add 'machine learning' and 'data science' keywords",
                        "Include 'agile methodology' in experience section",
                        "Use 'stakeholder management' terminology",
                        "Add 'cross-functional collaboration' phrases">>,
                  score_improvement |-> "+12 points", priority |-> "High"]
          [] x = "Experience Section Enhancer" ->
                 [title |-> "Experience Enhancement",
                  improvements |->
                      <<"Quantify achievements with specific metrics",
                        "Use stronger action verbs (led, implemented, optimized)",
                        "Add business impact statements",
                        "Include technology stack details">>,
                  score_improvement |-> "+8 points", priority |-> "Medium"]
          [] x = "Skills Hierarchy Creator" ->
                 [title |-> "Skills Organization",
                  improvements |->
                      <<"Categorize skills by proficiency level",
                        "Prioritize skills mentioned in job descriptions",
                        "Add emerging technology skills",
                        "Group related skills together">>,
                  score_improvement |-> "+6 points", priority |-> "Medium"]]

general_optimization ==
    [title |-> "General Optimization",
     improvements |-> <<"General resume improvements applied">>,
     score_improvement |-> "+5 points", priority |-> "Low"]

\* delete_resume: no await, the handler runs in one step
DeleteResume ==
    \E resume_id \in ResumeIds :
        /\ op' = "delete_resume"
        /\ args' = [resume_id |-> resume_id]
        /\ IF resume_id \notin DOMAIN uploaded_resumes
           THEN /\ ret' = HTTPException(404, "Resume not found")
                /\ UNCHANGED <<uploaded_resumes, requests>>
           ELSE LET deleted_resume == uploaded_resumes[resume_id]
                IN /\ uploaded_resumes' =
                          [i \in DOMAIN uploaded_resumes \ {resume_id} |->
                               uploaded_resumes[i]]
                   /\ requests' = Detach(resume_id)
                   /\ ret' = [message |-> "Resume '" \o deleted_resume.title
                                          \o "' deleted successfully",
                              deleted_resume_id |-> resume_id]
        /\ UNCHANGED <<resume_counter, resume_processor, frame, chat>>

\* optimize_resume up to "await asyncio.sleep(2)": the existence check and
\* resume = uploaded_resumes[resume_id]
OptimizeResumeStart ==
    /\ Len(RequestsOf("optimize_resume")) < MaxOptimizes
    /\ \E resume_id \in ResumeIds, optimization_type \in OptimizationTypes :
        IF resume_id \notin DOMAIN uploaded_resumes
        THEN /\ op' = "optimize_resume"
             /\ args' = [resume_id |-> resume_id,
                         optimization_type |-> optimization_type]
             /\ ret' = HTTPException(404, "Resume not found")
             /\ UNCHANGED requests
        ELSE /\ requests' = Append(requests,
                     [handler |-> "optimize_resume", resume_id |-> resume_id,
                      optimization_type |-> optimization_type,
                      pc |-> "sleep", detached |-> <<>>])
             /\ UNCHANGED <<op, args, ret>>
    /\ UNCHANGED <<uploaded_resumes, resume_counter, resume_processor, frame, chat>>

\* optimize_resume from "await asyncio.sleep(2)" to its return; the entry id
\* is counted on the dict the handler holds, the entry is appended to the dict
\* now stored under resume_id, and a missing key raises KeyError
OptimizeResumeFinish ==
    \E q \in 1..Len(requests) :
        /\ requests[q].pc = "sleep"
        /\ LET resume_id == requests[q].resume_id
               optimization_type == requests[q].optimization_type
               resume == IF requests[q].detached = <<>>
                         THEN uploaded_resumes[resume_id]
                         ELSE requests[q].detached[1]
               result == Get(optimization_results, optimization_type,
                             general_optimization)
               optimization_entry ==
                   [id |-> Len(resume.optimization_history) + 1,
                    type |-> optimization_type, results |-> result]
           IN /\ op' = "optimize_resume"
              /\ args' = [request |-> q, resume_id |-> resume_id,
                          optimization_type |-> optimization_type]
              /\ IF resume_id \notin DOMAIN uploaded_resumes
                 THEN /\ ret' = Raised("KeyError")
                      /\ UNCHANGED uploaded_resumes
                 ELSE /\ uploaded_resumes' =
                            [uploaded_resumes EXCEPT
                                ![resume_id].optimization_history =
                                    Append(@, optimization_entry)]
                      /\ ret' = [optimization_id |-> optimization_entry.id,
                                 resume_id |-> resume_id,
                                 status |-> "completed"] @@ result
        /\ requests' = [requests EXCEPT ![q].pc = "done"]
        /\ UNCHANGED <<resume_counter, resume_processor, frame, chat>>

StoreNext ==
    \/ UploadResumeStart
    \/ UploadResumeFinish
    \/ DeleteResume
    \/ OptimizeResumeStart
    \/ OptimizeResumeFinish

\* uploads, deletes and optimize requests in any interleaving
StoreSpec == Init /\ [][StoreNext]_vars

IsOptimize == op = "optimize_resume"

\* C25: an optimize request for a resume that existed when the request was
\* checked either appends exactly one entry to that resume's optimization
\* history, with an id one greater than the number of entries already there,
\* or is answered with "Resume not found"; no interleaving with a delete of
\* the same resume during the processing delay ends in an unhandled error.
C25_OptimizeAppendsOrNotFound ==
    [][OptimizeResumeFinish =>
          \/ ret' = HTTPException(404, "Resume not found")
          \/ /\ ~IsRaised(ret')
             /\ args'.resume_id \in DOMAIN uploaded_resumes
             /\ LET before == uploaded_resumes[args'.resume_id].optimization_history
                    after == uploaded_resumes'[args'.resume_id].optimization_history
                IN /\ Len(after) = Len(before) + 1
                   /\ SubSeq(after, 1, Len(before)) = before
                   /\ after[Len(after)].id = Len(before) + 1]_vars

-----------------------------------------------------------------------------
(* app/services/chat_manager.py: the sessions of the chat service.  A      *)
(* coroutine runs without interruption up to an await that waits for the   *)
(* network (Redis, the websocket); "await self.method()" alone does not    *)
(* give up control.                                                        *)

\* del d[k]
DictDel(d, k) == [x \in DOMAIN d \ {k} |-> d[x]]

\* messages kept in a conversation history
HistoryLimit == 50

\* f"chat_session:{session_id}"
RedisKey(session_id) == "chat_session:" \o session_id

\* add_message that keeps the first 50 messages
add_message_keep_first(session_data, session_id, role, content, metadata, time) ==
    IF session_id \notin DOMAIN session_data THEN session_data
    ELSE LET message == [role |-> role, content |-> content,
                         timestamp |-> time, metadata |-> metadata]
             history == Append(session_data[session_id].conversation_history,
                               message)
         IN [session_data EXCEPT ![session_id].conversation_history =
                IF Len(history) > HistoryLimit
                THEN SubSeq(history, 1, HistoryLimit)
                ELSE history]

\* add_message, as the new value of self.session_data
add_message(session_data, session_id, role, content, metadata, time) ==
    IF session_id \notin DOMAIN session_data THEN session_data
    ELSE LET message == [role |-> role, content |-> content,
                         timestamp |-> time, metadata |-> metadata]
             history == Append(session_data[session_id].conversation_history,
                               message)
         IN [session_data EXCEPT ![session_id].conversation_history =
                IF Len(history) > HistoryLimit
                THEN SubSeq(history, Len(history) - HistoryLimit + 1, Len(history))
                ELSE history]

\* the dict that save_conversation_history serializes
conversation_data(session) ==
    [conversation_history |-> session.conversation_history,
     context |-> session.context,
     resume_data |-> session.resume_data]

\* most connect, disconnect and send_message calls of a run
MaxCalls == 4

\* most add_message calls of a run
MaxMessages == 3

Sessions == {"s1"}

\* the calls without the call at position q
Returned(q) ==
    [calls EXCEPT !.running =
        SubSeq(calls.running, 1, q - 1) \o
        SubSeq(calls.running, q + 1, Len(calls.running))]

\* a new call that waits at an await
Waiting(call) ==
    [started |-> calls.started + 1, running |-> Append(calls.running, call)]

\* connect up to "await redis_client.get(...)" in load_conversation_history
ConnectStart ==
    /\ calls.started < MaxCalls
    /\ \E session_id \in Sessions :
        /\ chat_manager' =
               [active_connections |->
                    DictSet(chat_manager.active_connections, session_id,
                            calls.started + 1),
                session_data |->
                    DictSet(chat_manager.session_data, session_id,
                            [user_id |-> None, conversation_history |-> <<>>,
                             resume_data |-> None, context |-> <<>>])]
        /\ calls' = Waiting([method |-> "connect", session_id |-> session_id,
                             pc |-> "load"])
    /\ UNCHANGED <<op, args, ret, server, frame, redis, clock>>

\* connect from the answer of Redis to its return: the saved data, when
\* there is some and Redis answers, replaces the fields of the session
ConnectFinish ==
    \E q \in 1..Len(calls.running), answers \in BOOLEAN :
        /\ calls.running[q].pc = "load"
        /\ LET session_id == calls.running[q].session_id
               key == RedisKey(session_id)
           IN chat_manager' =
                  IF /\ answers
                     /\ key \in DOMAIN redis
                     /\ session_id \in DOMAIN chat_manager.session_data
                  THEN [chat_manager EXCEPT !.session_data[session_id] =
                           redis[key] @@ @]
                  ELSE chat_manager
        /\ calls' = Returned(q)
        /\ UNCHANGED <<op, args, ret, server, frame, redis, clock>>

\* disconnect(session_id) up to its first await on the network: with a
\* session to save it waits at "await redis_client.setex(...)", holding the
\* serialized data; without one it runs to its return
DisconnectSteps(session_id) ==
    /\ chat_manager' =
           [chat_manager EXCEPT !.active_connections = DictDel(@, session_id)]
    /\ IF session_id \in DOMAIN chat_manager.session_data
       THEN calls' = Waiting(
                [method |-> "disconnect", session_id |-> session_id,
                 pc |-> "save",
                 data |-> conversation_data(chat_manager.session_data[session_id])])
       ELSE calls' = [calls EXCEPT !.started = @ + 1]

DisconnectStart ==
    /\ calls.started < MaxCalls
    /\ \E session_id \in Sessions : DisconnectSteps(session_id)
    /\ UNCHANGED <<op, args, ret, server, frame, redis, clock>>

\* disconnect from the answer of Redis to its return
DisconnectFinish ==
    \E q \in 1..Len(calls.running), answers \in BOOLEAN :
        /\ calls.running[q].pc = "save"
        /\ LET session_id == calls.running[q].session_id
           IN /\ redis' = IF answers
                          THEN DictSet(redis, RedisKey(session_id),
                                       calls.running[q].data)
                          ELSE redis
              /\ chat_manager' =
                     [chat_manager EXCEPT !.session_data = DictDel(@, session_id)]
        /\ calls' = Returned(q)
        /\ UNCHANGED <<op, args, ret, server, frame, clock>>

\* send_message up to "await websocket.send_text(...)"
SendMessageStart ==
    /\ calls.started < MaxCalls
    /\ \E session_id \in DOMAIN chat_manager.active_connections :
        calls' = Waiting([method |-> "send_message", session_id |-> session_id,
                          pc |-> "send",
                          websocket |-> chat_manager.active_connections[session_id]])
    /\ UNCHANGED <<op, args, ret, server, frame, chat_manager, redis, clock>>

\* send_message after send_text: it returns, or send_text raised and the
\* handler goes on as disconnect(session_id)
SendMessageFinish ==
    \E q \in 1..Len(calls.running), sent \in BOOLEAN :
        /\ calls.running[q].pc = "send"
        /\ LET session_id == calls.running[q].session_id
           IN IF sent
              THEN /\ calls' = Returned(q)
                   /\ UNCHANGED chat_manager
              ELSE /\ chat_manager' =
                          [chat_manager EXCEPT
                              !.active_connections = DictDel(@, session_id)]
                   /\ calls' =
                          IF session_id \in DOMAIN chat_manager.session_data
                          THEN [calls EXCEPT !.running[q] =
                                   [method |-> "disconnect",
                                    session_id |-> session_id, pc |-> "save",
                                    data |-> conversation_data(
                                        chat_manager.session_data[session_id])]]
                          ELSE Returned(q)
        /\ UNCHANGED <<op, args, ret, server, frame, redis, clock>>

\* a history of one message less than the limit, with the times 1, 2, ...
SavedHistory ==
    [t \in 1..(HistoryLimit - 1) |->
        [role |-> "user", content |-> "hello", timestamp |-> t, metadata |-> <<>>]]

\* add_message: no await, one step; the loop's time moves on
AddMessage ==
    /\ clock < Len(SavedHistory) + MaxMessages
    /\ \E session_id \in Sessions :
        chat_manager' =
            [chat_manager EXCEPT !.session_data =
                add_message(@, session_id, "user", "hello", <<>>, clock + 1)]
    /\ clock' = clock + 1
    /\ UNCHANGED <<op, args, ret, server, frame, redis, calls>>

ChatNext ==
    \/ ConnectStart
    \/ ConnectFinish
    \/ DisconnectStart
    \/ DisconnectFinish
    \/ SendMessageStart
    \/ SendMessageFinish

\* connect, disconnect and send_message calls in any interleaving
ChatSpec == Init /\ [][ChatNext]_vars

\* no connect and no disconnect call is in progress
NoSessionCallInProgress ==
    \A q \in 1..Len(calls.running) : calls.running[q].method = "send_message"

\* C26: in ChatManager, whenever no connect or disconnect call is in
\* progress, a session id is in active_connections exactly when it is in
\* session_data, under any interleaving of connect, disconnect and
\* send_message calls for the same session id.
C26_ConnectionsMatchSessions ==
    NoSessionCallInProgress =>
        DOMAIN chat_manager.active_connections = DOMAIN chat_manager.session_data

\* a new ChatManager while Redis holds the session that an earlier run saved
HistoryInit ==
    /\ op = "none"
    /\ args = <<>>
    /\ ret = <<>>
    /\ uploaded_resumes = (1 :> sample_resume)
    /\ resume_counter = 1
    /\ requests = <<>>
    /\ resume_processor = [industry_keywords |-> industry_keywords]
    /\ frame = [pc |-> "idle"]
    /\ chat_manager = [active_connections |-> <<>>, session_data |-> <<>>]
    /\ redis = (RedisKey("s1") :>
                    [conversation_history |-> SavedHistory,
                     context |-> <<>>, resume_data |-> None])
    /\ calls = [started |-> 0, running |-> <<>>]
    /\ clock = Len(SavedHistory)

HistoryNext ==
    \/ ConnectStart
    \/ ConnectFinish
    \/ DisconnectStart
    \/ DisconnectFinish
    \/ SendMessageStart
    \/ SendMessageFinish
    \/ AddMessage

\* the chat calls with add_message, on a session that has a saved history
HistorySpec == HistoryInit /\ [][HistoryNext]_vars

\* the conversation history of a connected session
HistoryOf(manager, session_id) ==
    manager.session_data[session_id].conversation_history

\* every history holds at most 50 messages, in the order of their times
HistoryBounded ==
    \A session_id \in DOMAIN chat_manager.session_data :
        LET history == HistoryOf(chat_manager, session_id)
        IN /\ Len(history) <= HistoryLimit
           /\ \A i, j \in 1..Len(history) :
                  i < j => history[i].timestamp < history[j].timestamp

\* one add_message call: on a connected session the new message is the last
\* one and the messages before it are the most recent of the former history;
\* on a session that is not connected nothing changes
AddMessageStep ==
    clock' # clock =>
        \A session_id \in Sessions :
            IF session_id \notin DOMAIN chat_manager.session_data
            THEN chat_manager' = chat_manager
            ELSE LET before == HistoryOf(chat_manager, session_id)
                     after == HistoryOf(chat_manager', session_id)
                     kept == Len(after) - 1
                 IN /\ Len(after) = Min2(Len(before) + 1, HistoryLimit)
                    /\ after[Len(after)].timestamp = clock'
                    /\ SubSeq(after, 1, kept) =
                           SubSeq(before, Len(before) - kept + 1, Len(before))

\* C27: after any sequence of add_message calls on a connected session, the
\* session's conversation history holds at most 50 messages, and they are the
\* most recently added messages in the order they were added; add_message on
\* a session that is not connected changes nothing.
C27_HistoryKeepsLast50 == []HistoryBounded /\ [][AddMessageStep]_vars

\* the session was connected with 49 saved messages and two messages were
\* added: the history holds the messages of the times 2 to 51
C27_Witness ==
    /\ "s1" \in DOMAIN chat_manager.session_data
    /\ clock = HistoryLimit + 1
    /\ Len(HistoryOf(chat_manager, "s1")) = HistoryLimit
    /\ HistoryOf(chat_manager, "s1")[1].timestamp = 2
    /\ HistoryOf(chat_manager, "s1")[HistoryLimit].timestamp = HistoryLimit + 1

-----------------------------------------------------------------------------
(* the values a match can take *)

\* the least overall score: 60 * 0.30 + 0 * 0.40 + 75 * 0.15 + 50 * 0.15
LeastOverall == Rat(147, 4)

\* C28: for every resume analysis and job analysis the category scores of a
\* match take only fixed values: experience in {60, 75, 90}, education in
\* {75, 100}, industry in {50, 70, 100}, skills in [0, 100].  Hence the
\* experience and education gap statements are never emitted, the only gap
\* statement that can appear is the skills one, and the overall score is
\* never below 36.75.
C28_FixedCategoryValues ==
    IsMatch =>
        LET scores == ret.category_scores
        IN /\ scores.experience \in {60, 75, 90}
           /\ scores.education \in {75, 100}
           /\ scores.industry \in {50, 70, 100}
           /\ RatLe(RatInt(0), scores.skills)
           /\ RatLe(scores.skills, RatInt(100))
           /\ SeqToSet(ret.gaps) \subseteq {GapStatement.skills}
           /\ RatLe(LeastOverall, ret.overall_score)

\* the match with the least value of every category: a senior job of another
\* industry that requires a degree and skills the resume does not have
C28_Witness ==
    /\ IsMatch
    /\ ret.category_scores =
           [experience |-> 60, skills |-> RatInt(0), education |-> 75,
            industry |-> 50]
    /\ ret.gaps = <<GapStatement.skills>>
    /\ ret.overall_score = LeastOverall

-----------------------------------------------------------------------------
(* the resume generator: generate_optimized_resume and optimize_content.    *)
(* A ResumeData object lives in frame.heap and the local variables hold its *)
(* position there, as the Python names hold references to one object. The   *)
(* fields that the optimization neither reads nor writes (personal_info,    *)
(* education, certifications, projects) and the PDF bytes are left out.     *)

\* str.replace(old, new): every occurrence from the left, non-overlapping
RECURSIVE Replace(_, _, _)
Replace(s, old, new) ==
    IF Len(s) < Len(old) \/ Len(old) = 0 THEN s
    ELSE IF SubSeq(s, 1, Len(old)) = old
         THEN new \o Replace(SubSeq(s, Len(old) + 1, Len(s)), old, new)
         ELSE SubSeq(s, 1, 1) \o Replace(SubSeq(s, 2, Len(s)), old, new)

\* skills.get('technical', [])
technical(resume_data) ==
    IF "technical" \in DOMAIN resume_data.skills
    THEN resume_data.skills["technical"] ELSE <<>>

\* the loop "if keyword not in skills['technical']: append(keyword)"
RECURSIVE AppendMissing(_, _)
AppendMissing(list, keywords) ==
    IF keywords = <<>> THEN list
    ELSE AppendMissing(IF \E i \in 1..Len(list) : list[i] = Head(keywords)
                       THEN list ELSE Append(list, Head(keywords)),
                       Tail(keywords))

\* the object after add_keywords has run on it
add_keywords(resume_data, keywords, industry) ==
    LET keyword_phrase ==
            "Experienced in " \o
            Join(", ", SubSeq(keywords, 1, IF Len(keywords) < 3 THEN Len(keywords) ELSE 3))
    IN [resume_data EXCEPT
            !.skills = DictSet(@, "technical", AppendMissing(technical(resume_data), keywords)),
            !.summary = IF StrIn(keyword_phrase, @) THEN @
                        ELSE keyword_phrase \o ". " \o @]

metrics_examples == <<
    "resulting in 25% increase in efficiency",
    "improving performance by 30%",
    "serving 1000+ users daily",
    "managing $100K+ budget",
    "leading team of 5+ members"
>>

\* the object after add_quantifiable_achievements has run on it
add_quantifiable_achievements(resume_data) ==
    [resume_data EXCEPT !.experience =
        [i \in 1..Len(@) |->
            [@[i] EXCEPT !.achievements =
                [j \in 1..Len(@) |->
                    IF ~HasMetric(@[j])
                    THEN @[j] \o ", " \o
                         metrics_examples[((j - 1) % Len(metrics_examples)) + 1]
                    ELSE @[j]]]]]

\* weak_to_strong of improve_action_verbs, in the order of the dict
weak_to_strong(strong_verbs) == <<
    <<"responsible for", IF Len(strong_verbs) > 0 THEN strong_verbs[1] ELSE "managed">>,
    <<"worked on",       IF Len(strong_verbs) > 1 THEN strong_verbs[2] ELSE "developed">>,
    <<"helped with",     IF Len(strong_verbs) > 2 THEN strong_verbs[3] ELSE "assisted">>,
    <<"duties included", IF Len(strong_verbs) > 3 THEN strong_verbs[4] ELSE "executed">>
>>

\* the inner loop over weak_to_strong: every hit assigns a replacement made
\* in the achievement the loop variable holds, so the last hit remains
ImproveVerb(achievement, pairs) ==
    LET hits == {k \in 1..Len(pairs) : StrIn(pairs[k][1], lower(achievement))}
    IN IF hits = {} THEN achievement
       ELSE Replace(achievement, pairs[SetMax(hits)][1], pairs[SetMax(hits)][2])

\* the object after improve_action_verbs has run on it
improve_action_verbs(resume_data, strong_verbs) ==
    [resume_data EXCEPT !.experience =
        [i \in 1..Len(@) |->
            [@[i] EXCEPT !.achievements =
                [j \in 1..Len(@) |-> ImproveVerb(@[j], weak_to_strong(strong_verbs))]]]]

\* the achievements of a resume, as pairs of positions
Achievements(resume_data) ==
    {<<i, j>> \in (1..Len(resume_data.experience)) \X (1..2) :
        j <= Len(resume_data.experience[i].achievements)}

\* the count of the achievements in which the metric pattern is found
MetricCount(resume_data) ==
    Cardinality({p \in Achievements(resume_data) :
                    HasMetric(resume_data.experience[p[1]].achievements[p[2]])})

get_improvement_summary(original, optimized) ==
    LET diff_skills == Len(technical(optimized)) - Len(technical(original))
        diff_metrics == MetricCount(optimized) - MetricCount(original)
        keywords_added == IF diff_skills > 0 THEN diff_skills ELSE 0
        metrics_added == IF diff_metrics > 0 THEN diff_metrics ELSE 0
    IN [keywords_added |-> keywords_added,
        metrics_added |-> metrics_added,
        sections_enhanced |->
            (IF keywords_added > 0 THEN <<"Skills">> ELSE <<>>) \o
            (IF metrics_added > 0 THEN <<"Experience">> ELSE <<>>),
        formatting_improved |-> TRUE]

\* the most recommendations of a drawn analysis
MaxRecommendations == 2

\* recommendations of the kinds generate_recommendations produces
Recommendations == {
    [action |-> "keyword_optimization", keywords |-> <<"python", "docker">>],
    [action |-> "add_metrics"],
    [action |-> "improve_verbs", suggestions |-> <<"led">>],
    [action |-> "add_sections"]
}

RecommendationLists ==
    UNION {[1..n -> Recommendations] : n \in 0..MaxRecommendations}

\* the ResumeData objects parse_existing_resume returns for the drawn resumes
ParsedResumes ==
    {[summary |-> s, experience |-> e, skills |-> k] :
        s \in {"Backend engineer.", "Experienced in python, docker. Engineer."},
        e \in {<<>>,
               <<[title |-> "Engineer", achievements |-> <<"worked on APIs">>]>>,
               <<[title |-> "Lead",
                  achievements |-> <<"Responsible for a team", "cut costs by 20%">>]>>},
        k \in {EmptyDict,
               DictSet(EmptyDict, "technical", <<"python">>),
               DictSet(DictSet(EmptyDict, "technical", <<"sql">>), "soft", <<"writing">>)}}

\* generate_optimized_resume up to the loop of optimize_content: the parsed
\* object is created, and "optimized_data = resume_data" makes the second
\* name refer to the same object
GenerateOptimizedResumeCall ==
    /\ op = "none"
    /\ \E d \in ParsedResumes, recs \in RecommendationLists :
        /\ op' = "generate_optimized_resume"
        /\ args' = [parsed |-> d, recommendations |-> recs, industry |-> "technology"]
        /\ frame' = [pc |-> "optimizing", heap |-> <<d>>,
                     original_data |-> 1, optimized_data |-> 1, r |-> 1]
    /\ UNCHANGED <<ret, server, chat>>

\* the object a recommendation leaves behind
ApplyRecommendation(resume_data, rec, industry) ==
    CASE rec.action = "keyword_optimization" ->
             add_keywords(resume_data, rec.keywords, industry)
      [] rec.action = "add_metrics" ->
             add_quantifiable_achievements(resume_data)
      [] rec.action = "improve_verbs" ->
             improve_action_verbs(resume_data,
                 IF "suggestions" \in DOMAIN rec THEN rec.suggestions ELSE <<>>)
      [] OTHER -> resume_data

\* one iteration of the loop of optimize_content: the method called changes
\* the object it is given and returns it
OptimizeContentStep ==
    /\ frame.pc = "optimizing"
    /\ frame.r <= Len(args.recommendations)
    /\ frame' = [frame EXCEPT
                    !.heap[frame.optimized_data] =
                        ApplyRecommendation(@, args.recommendations[frame.r], args.industry),
                    !.r = @ + 1]
    /\ UNCHANGED <<op, args, ret, server, chat>>

\* the return of generate_optimized_resume
GenerateOptimizedResumeReturn ==
    /\ frame.pc = "optimizing"
    /\ frame.r > Len(args.recommendations)
    /\ ret' = [original_data |-> frame.heap[frame.original_data],
               optimized_data |-> frame.heap[frame.optimized_data],
               improvements |-> get_improvement_summary(frame.heap[frame.original_data],
                                                        frame.heap[frame.optimized_data]),
               template_used |-> args.industry]
    /\ frame' = [frame EXCEPT !.pc = "generated"]
    /\ UNCHANGED <<op, args, server, chat>>

GeneratorNext ==
    \/ GenerateOptimizedResumeCall
    \/ OptimizeContentStep
    \/ GenerateOptimizedResumeReturn

\* the calls of generate_optimized_resume
GeneratorSpec == Init /\ [][GeneratorNext]_vars

\* the achievements that have a metric in the optimized data and had none in
\* the parsed resume
GainedMetric(before, after) ==
    {p \in Achievements(before) :
        /\ ~HasMetric(before.experience[p[1]].achievements[p[2]])
        /\ HasMetric(after.experience[p[1]].achievements[p[2]])}

\* C30: generate_optimized_resume leaves the parsed resume data unchanged:
\* original_data of the result is the resume before the optimization,
\* improvements.keywords_added is the number of keywords the optimization
\* added to the technical skills, and improvements.metrics_added is the
\* number of achievements that gained a metric.
C30_OriginalDataUnchanged ==
    frame.pc = "generated" =>
        /\ ret.original_data = args.parsed
        /\ ret.improvements.keywords_added =
               Len(technical(ret.optimized_data)) - Len(technical(args.parsed))
        /\ ret.improvements.metrics_added =
               Cardinality(GainedMetric(args.parsed, ret.optimized_data))

====
